---- MODULE Spec2Model ----
(***************************************************************************)
(* Player state machine, menu engine and redraw scheduler of the two       *)
(* colour-TFT sketches of the music player:                                *)
(*   "audio" : src/lcdScreen1/lcdScreen1.ino, second sketch (line 198 on), *)
(*             playback through AudioTools (source / decoder / I2S sink);  *)
(*   "mock"  : src/unnamed/part_000, playback simulated by a 1 s timer.    *)
(* and the song-list browsers of the two small sketches that share the     *)
(* index arithmetic:                                                       *)
(*   "lcd"   : src/lcdScreen1/lcdScreen1.ino, first sketch (lines 1-197);  *)
(*   "oled"  : src/unnamed/part_001, first sketch (lines 1-330).           *)
(* One pass of loop() is modelled as LoopTop (clock read, audio copy,      *)
(* button update, playback clock), then one step per `if (btn.fell())`     *)
(* block of the dispatched handler, in source order, then Redraw.          *)
(*                                                                         *)
(* The sketches use millis() only in differences against a stored          *)
(* timestamp (millis() - lastX compared with a constant).  The model keeps *)
(* each such difference, in ms, saturated at the constant it is compared   *)
(* with, in place of the two absolute values:                              *)
(*   sincePrevPress = millis() - lastPrevPressTime  (at most 300)          *)
(*   sinceFrame     = millis() - lastFrameTime      (at most 33)           *)
(*   sinceTick      = millis() - lastTimeUpdate     (at most 1001)         *)
(* and uptime = millis() itself, saturated at 300, which is what a stored  *)
(* timestamp of 0 amounts to.  millis() is taken to read one value during  *)
(* a pass of loop().                                                       *)
(***************************************************************************)
EXTENDS Integers, Sequences, FiniteSets, TLC

\* ------------------------------------------------------------------ bounds
MaxSongs == 2
FileSize == 1
MaxElapsed == 1
MaxStoreLen == 3
MaxNameLen == 4

\* ------------------------------------------------------- program constants
DOUBLE_CLICK_MS == 300
TARGET_FPS == 30
FRAME_TIME_MS == 1000 \div TARGET_FPS
DEBOUNCE_MS == 25
TICK_MS == 1000
max_items_on_screen == 5
SCREEN_HEIGHT == 480
y_start == 60
row_height == 45
DEFAULT_DURATION == 180
MOCK_DURATION_BASE == 180
MOCK_DURATION_STEP == 15
MOCK_DURATION_INIT == 245

\* clock advance between two passes of loop(), and millis() at the first pass
TimeSteps == {0, 150}
BootTimes == {150, 600}
MockBootTimes == {600}

\* a difference of timestamps, kept up to the constant it is compared with
Sat(x, cap) == IF x > cap THEN cap ELSE x

Buttons == {"select", "next", "prev"}

\* mutation of max: the second argument is returned unclamped
max_NoClamp(a, b) == b

max(a, b) == IF a > b THEN a ELSE b

\* ---------------------------------------------------------- metadata store
\* Entry i of the card's metadata.json.  Every third file is not an .mp3,
\* artists repeat with period 2 and albums with period 3.
StoreObj(i) ==
  [filename |-> [base |-> "F" \o ToString(i),
                 ext  |-> IF i % 3 = 0 THEN "wav" ELSE "mp3"],
   title    |-> "T" \o ToString(i),
   artist   |-> "A" \o ToString(i % 2),
   album    |-> "B" \o ToString(i % 3),
   albumArt |-> "Unknown_Album.bmp",
   duration |-> [present |-> (i % 2 = 1), value |-> 200 + i]]

StoreDoc(n) == [i \in 1..n |-> StoreObj(i)]

\* what SD_MMC.open / deserializeJson find at boot
Stores ==
  {[status |-> "missing", doc |-> <<>>],
   [status |-> "corrupt", doc |-> StoreDoc(MaxSongs)]}
    \cup {[status |-> "ok", doc |-> StoreDoc(n)] : n \in 0..MaxSongs}

EmptyCatalog == [songs |-> <<>>, artists |-> <<>>, albums |-> <<>>]

\* mutation of AddIfAbsent: the entry is appended without the scan
AddIfAbsent_Always(list, s) == Append(list, s)

\* the linear membership scan followed by push_back
AddIfAbsent(list, s) ==
  IF \E i \in 1..Len(list) : list[i] = s THEN list ELSE Append(list, s)

\* songObj["duration"] | 180 : the default replaces an absent value only
LoadDuration(d) == IF d.present THEN d.value ELSE DEFAULT_DURATION

RECURSIVE loadSongs(_, _)
loadSongs(objs, cat) ==
  IF objs = <<>> THEN cat
  ELSE LET o == Head(objs)
           song == [filename |-> o.filename, title |-> o.title,
                    artist |-> o.artist, album |-> o.album,
                    albumArt |-> o.albumArt,
                    duration |-> LoadDuration(o.duration)]
       IN loadSongs(Tail(objs),
                    [songs   |-> Append(cat.songs, song),
                     artists |-> AddIfAbsent(cat.artists, song.artist),
                     albums  |-> AddIfAbsent(cat.albums, song.album)])

\* mutation of loadMetadata: the entries are read whatever the parser says
loadMetadata_IgnoreError(st) == loadSongs(st.doc, EmptyCatalog)

\* the vectors are empty globals; an open or parse failure returns early
loadMetadata(st) ==
  IF st.status # "ok" THEN EmptyCatalog
  ELSE loadSongs(st.doc, EmptyCatalog)

MainMenuItems == <<"Music", "Artists", "Albums", "Songs", "Settings", "Back">>

\* mutation of populateMenuItems: the sub-menus get no "Back" entry
populateMenuItems_NoBack(menu, sgs, arts, albs) ==
  CASE menu = "MENU_MAIN"    -> MainMenuItems
    [] menu = "MENU_ARTISTS" -> arts
    [] menu = "MENU_ALBUMS"  -> albs
    [] menu = "MENU_SONGS"   -> [i \in 1..Len(sgs) |-> sgs[i].title]

populateMenuItems(menu, sgs, arts, albs) ==
  CASE menu = "MENU_MAIN"    -> MainMenuItems
    [] menu = "MENU_ARTISTS" -> Append(arts, "Back")
    [] menu = "MENU_ALBUMS"  -> Append(albs, "Back")
    [] menu = "MENU_SONGS"   -> Append([i \in 1..Len(sgs) |-> sgs[i].title], "Back")

\* ------------------------------------------------------------------- state
VARIABLES
  sketch,               \* which of the sketches runs
  store,                \* /metadata.json on the card, as setup() finds it
  songs, artists, albums,
  songList,             \* the song list of the "lcd" and "oled" sketches
  selectedSongIndex,    \* their browsing selection
  currentMenu, currentMenuItems,
  currentState, previousState,
  selectedMenuIndex, menuOffset,
  playingSongIndex, isPlaying,
  prevSongTimeSec, prevIsPlaying, prevPlayingSongIndex,
  songDurationSec, currentSongTimeSec,
  sinceTick,            \* millis() - lastTimeUpdate (mock sketch only)
  sincePrevPress,       \* millis() - lastPrevPressTime
  sinceFrame,           \* millis() - lastFrameTime
  uptime,               \* millis()
  needsRedraw, needsFullRedraw,
  sessions,             \* files held open by `source`
  decoderRunning,       \* decoder->isRunning()
  i2sPaused,            \* i2s_out paused
  srcPos,               \* source.pos()
  infoByteRate,         \* info.byteRate()
  handler,              \* handler loop() dispatched to; "idle" between passes
  pending,              \* buttons whose fell() is true and not yet handled
  recent,               \* buttons that fell less than 2*DEBOUNCE_MS ago
  sinceClick,           \* ms since the last Prev edge on Playing (at most 300)
  lastPrevKind,         \* how that edge was handled: "single", "double"; "none"
  lastStep,             \* the block executed last, and what it started from
  openFailed,           \* the last block called startPlayback and got no file
  painted,              \* what updateDisplay drew in this pass of loop()
  fault                 \* undefined behaviour hit by the program

catalogVars == <<sketch, store, songs, artists, albums>>
browseVars == <<songList, selectedSongIndex>>
menuVars == <<currentMenu, currentMenuItems, selectedMenuIndex, menuOffset>>
screenVars == <<currentState, previousState>>
playerVars == <<playingSongIndex, isPlaying, prevSongTimeSec, prevIsPlaying,
                prevPlayingSongIndex, songDurationSec, currentSongTimeSec,
                sinceTick, needsRedraw, needsFullRedraw, sessions,
                decoderRunning, srcPos, infoByteRate, openFailed, fault>>
clickVars == <<sincePrevPress, sinceClick, lastPrevKind>>
frameVars == <<sinceFrame>>
loopVars == <<uptime, handler, pending, recent, lastStep, painted>>
vars == <<catalogVars, browseVars, menuVars, screenVars, playerVars, i2sPaused, clickVars,
          frameVars, loopVars>>

\* ------------------------------------------------- the player as a record
\* The globals that startPlayback / handleNextSong / requestRedraw write,
\* gathered so that the calls made in sequence inside one block compose.
CurPlayer ==
  [playingSongIndex |-> playingSongIndex, isPlaying |-> isPlaying,
   prevSongTimeSec |-> prevSongTimeSec, prevIsPlaying |-> prevIsPlaying,
   prevPlayingSongIndex |-> prevPlayingSongIndex,
   songDurationSec |-> songDurationSec,
   currentSongTimeSec |-> currentSongTimeSec,
   sinceTick |-> sinceTick,
   needsRedraw |-> needsRedraw, needsFullRedraw |-> needsFullRedraw,
   sessions |-> sessions, decoderRunning |-> decoderRunning,
   srcPos |-> srcPos, infoByteRate |-> infoByteRate, openFailed |-> FALSE,
   fault |-> fault]

SetPlayer(p) ==
  /\ playingSongIndex' = p.playingSongIndex
  /\ isPlaying' = p.isPlaying
  /\ prevSongTimeSec' = p.prevSongTimeSec
  /\ prevIsPlaying' = p.prevIsPlaying
  /\ prevPlayingSongIndex' = p.prevPlayingSongIndex
  /\ songDurationSec' = p.songDurationSec
  /\ currentSongTimeSec' = p.currentSongTimeSec
  /\ sinceTick' = p.sinceTick
  /\ needsRedraw' = p.needsRedraw
  /\ needsFullRedraw' = p.needsFullRedraw
  /\ sessions' = p.sessions
  /\ decoderRunning' = p.decoderRunning
  /\ srcPos' = p.srcPos
  /\ infoByteRate' = p.infoByteRate
  /\ openFailed' = p.openFailed
  /\ fault' = p.fault

requestRedraw(p, fullRedraw) ==
  [p EXCEPT !.needsRedraw = TRUE,
            !.needsFullRedraw = IF fullRedraw THEN TRUE ELSE @]

\* what info.begin() reads from file number i: every second file carries no
\* usable header (duration and byte rate 0)
FileInfo(i) ==
  IF i % 2 = 0 THEN [duration |-> 0, byteRate |-> 0]
  ELSE [duration |-> FileSize, byteRate |-> 1]

\* mutation of stopPrevious: the source is left open
stopPrevious_NoClose(p) == [p EXCEPT !.decoderRunning = FALSE]

\* decoder->end() if running, then source.close()
stopPrevious(p) ==
  [p EXCEPT !.decoderRunning = FALSE, !.sessions = 0, !.srcPos = 0]

\* source.open() takes one more file; openOK is whether the card delivers it
openSource(p, openOK) ==
  IF openOK THEN [p EXCEPT !.sessions = @ + 1, !.srcPos = 0] ELSE p

startPlayback(p, songIndex, openOK) ==
  IF songIndex < 0 \/ songIndex >= Len(songs) THEN p
  ELSE
    LET p1 == stopPrevious([p EXCEPT !.playingSongIndex = songIndex])
    IN IF ~openOK THEN [p1 EXCEPT !.openFailed = TRUE]
       ELSE
         LET inf == FileInfo(songIndex + 1)
             p2 == [openSource(p1, openOK) EXCEPT
                      !.infoByteRate = inf.byteRate,
                      !.songDurationSec =
                          IF inf.duration <= 0 THEN 1 ELSE inf.duration]
         IN IF songs[songIndex + 1].filename.ext # "mp3"
              THEN [p2 EXCEPT !.sessions = 0, !.srcPos = 0]
              ELSE requestRedraw(
                     [p2 EXCEPT !.decoderRunning = TRUE,
                                !.isPlaying = TRUE,
                                !.currentSongTimeSec = 0,
                                !.prevSongTimeSec = -1], TRUE)

\* audio sketch; the modulo by songs.size() is undefined for an empty list
handleNextSong(p, openOK) ==
  IF Len(songs) = 0 THEN [p EXCEPT !.fault = "div0"]
  ELSE startPlayback([p EXCEPT !.prevPlayingSongIndex = p.playingSongIndex],
                     (p.playingSongIndex + 1) % Len(songs), openOK)

mockDuration(index) == MOCK_DURATION_BASE + (index * MOCK_DURATION_STEP)

\* mutation of handleNextSongMock: the index is not wrapped
handleNextSongMock_NoWrap(p) ==
  IF Len(songs) = 0 THEN [p EXCEPT !.fault = "div0"]
  ELSE
    LET idx == p.playingSongIndex + 1
    IN requestRedraw(
         [p EXCEPT !.prevPlayingSongIndex = p.playingSongIndex,
                   !.playingSongIndex = idx,
                   !.isPlaying = TRUE,
                   !.prevSongTimeSec = -1,
                   !.currentSongTimeSec = 0,
                   !.songDurationSec = mockDuration(idx),
                   !.sinceTick = 0], TRUE)

\* mock sketch
handleNextSongMock(p) ==
  IF Len(songs) = 0 THEN [p EXCEPT !.fault = "div0"]
  ELSE
    LET idx == (p.playingSongIndex + 1) % Len(songs)
    IN requestRedraw(
         [p EXCEPT !.prevPlayingSongIndex = p.playingSongIndex,
                   !.playingSongIndex = idx,
                   !.isPlaying = TRUE,
                   !.prevSongTimeSec = -1,
                   !.currentSongTimeSec = 0,
                   !.songDurationSec = mockDuration(idx),
                   !.sinceTick = 0], TRUE)

\* how often each region of the screen was drawn, and the regions drawn
\* although they showed the same value before the shadows were reset
NoPaint ==
  [screen |-> 0, menu |-> 0, info |-> 0, time |-> 0, icon |-> 0, forced |-> {}]

\* -------------------------------------------------------------------- Init
\* the globals when setup() of sketch sk returns, boot ms after power-up,
\* having found the metadata store st
SetupValues(sk, st, boot) ==
  LET cat == loadMetadata(st) IN
    [sketch |-> sk,
     store |-> st,
     songs |-> cat.songs,
     artists |-> cat.artists,
     albums |-> cat.albums,
     songList |-> <<>>,
     selectedSongIndex |-> 0,
     currentMenu |-> "MENU_MAIN",
     currentMenuItems |-> populateMenuItems("MENU_MAIN", cat.songs, cat.artists,
                                          cat.albums),
     currentState |-> "STATE_HOME",
     previousState |-> "STATE_HOME",
     selectedMenuIndex |-> 0,
     menuOffset |-> 0,
     playingSongIndex |-> 0,
     isPlaying |-> FALSE,
     prevSongTimeSec |-> -1,
     prevIsPlaying |-> FALSE,
     prevPlayingSongIndex |-> -1,
     songDurationSec |-> IF sk = "mock" THEN MOCK_DURATION_INIT ELSE 0,
     currentSongTimeSec |-> 0,
     uptime |-> Sat(boot, DOUBLE_CLICK_MS),
     sinceTick |-> Sat(boot, TICK_MS + 1),
     sincePrevPress |-> Sat(boot, DOUBLE_CLICK_MS),
     sinceClick |-> DOUBLE_CLICK_MS,
     lastPrevKind |-> "none",
     sinceFrame |-> Sat(boot, FRAME_TIME_MS),
     needsRedraw |-> TRUE,
     needsFullRedraw |-> TRUE,
     sessions |-> 0,
     decoderRunning |-> FALSE,
     i2sPaused |-> FALSE,
     srcPos |-> 0,
     infoByteRate |-> 0,
     openFailed |-> FALSE,
     handler |-> "idle",
     pending |-> {},
     recent |-> {},
     lastStep |-> <<"setup", "">>,
     painted |-> NoPaint,
     fault |-> "none"]

\* the globals hold the values of record r
StateIs(r) ==
    /\ sketch = r.sketch
    /\ store = r.store
    /\ songs = r.songs
    /\ artists = r.artists
    /\ albums = r.albums
    /\ songList = r.songList
    /\ selectedSongIndex = r.selectedSongIndex
    /\ currentMenu = r.currentMenu
    /\ currentMenuItems = r.currentMenuItems
    /\ currentState = r.currentState
    /\ previousState = r.previousState
    /\ selectedMenuIndex = r.selectedMenuIndex
    /\ menuOffset = r.menuOffset
    /\ playingSongIndex = r.playingSongIndex
    /\ isPlaying = r.isPlaying
    /\ prevSongTimeSec = r.prevSongTimeSec
    /\ prevIsPlaying = r.prevIsPlaying
    /\ prevPlayingSongIndex = r.prevPlayingSongIndex
    /\ songDurationSec = r.songDurationSec
    /\ currentSongTimeSec = r.currentSongTimeSec
    /\ uptime = r.uptime
    /\ sinceTick = r.sinceTick
    /\ sincePrevPress = r.sincePrevPress
    /\ sinceClick = r.sinceClick
    /\ lastPrevKind = r.lastPrevKind
    /\ sinceFrame = r.sinceFrame
    /\ needsRedraw = r.needsRedraw
    /\ needsFullRedraw = r.needsFullRedraw
    /\ sessions = r.sessions
    /\ decoderRunning = r.decoderRunning
    /\ i2sPaused = r.i2sPaused
    /\ srcPos = r.srcPos
    /\ infoByteRate = r.infoByteRate
    /\ openFailed = r.openFailed
    /\ handler = r.handler
    /\ pending = r.pending
    /\ recent = r.recent
    /\ lastStep = r.lastStep
    /\ painted = r.painted
    /\ fault = r.fault

AfterSetup(sk, st, boot) == StateIs(SetupValues(sk, st, boot))

bootTimesOf(sk) == IF sk = "mock" THEN MockBootTimes ELSE BootTimes

Init ==
  \E sk \in {"audio", "mock"}, st \in Stores :
    \E boot \in bootTimesOf(sk) : AfterSetup(sk, st, boot)

\* ------------------------------------------------------------ loop(): top
handlerOf(state) ==
  CASE state = "STATE_HOME"    -> "home"
    [] state = "STATE_MENU"    -> "menu"
    [] state = "STATE_PLAYING" -> "playing"

\* Bounce2 with interval(25): a button cannot fall twice within two intervals
Debounced(dt, fell) == dt < 2 * DEBOUNCE_MS => fell \cap recent = {}

\* btn*.update() and the switch (currentState) that picks the handler
Dispatch(dt, fell, stepName, detail) ==
  /\ uptime' = Sat(uptime + dt, DOUBLE_CLICK_MS)
  /\ sincePrevPress' = Sat(sincePrevPress + dt, DOUBLE_CLICK_MS)
  /\ sinceClick' = Sat(sinceClick + dt, DOUBLE_CLICK_MS)
  /\ lastPrevKind' = lastPrevKind
  /\ sinceFrame' = Sat(sinceFrame + dt, FRAME_TIME_MS)
  /\ handler' = handlerOf(currentState)
  /\ pending' = IF currentState = "STATE_HOME" THEN fell \cap {"select"} ELSE fell
  /\ recent' = IF dt < 2 * DEBOUNCE_MS THEN recent \cup fell ELSE fell
  /\ lastStep' = <<stepName, detail>>
  /\ painted' = NoPaint

\* copy_stream.copy(*decoder): nothing moved, one second of data moved, or
\* the decoder stops at the end of the file
CopyChoices == {"idle", "data", "end"}

\* mutation of copy: nothing is copied while a redraw is pending
copy_NotWhileRedrawPending(p, c) ==
  IF ~p.decoderRunning \/ p.needsRedraw THEN p
  ELSE CASE c = "data" /\ p.srcPos < FileSize -> [p EXCEPT !.srcPos = @ + 1]
         [] c = "end" /\ p.srcPos >= FileSize -> [p EXCEPT !.decoderRunning = FALSE]
         [] OTHER -> p

copy(p, c) ==
  IF ~p.decoderRunning THEN p
  ELSE CASE c = "data" /\ p.srcPos < FileSize -> [p EXCEPT !.srcPos = @ + 1]
         [] c = "end" /\ p.srcPos >= FileSize -> [p EXCEPT !.decoderRunning = FALSE]
         [] OTHER -> p

\* elapsed seconds from the byte position
updateTime(p) ==
  LET newTimeSec == IF p.infoByteRate > 0 THEN p.srcPos \div p.infoByteRate ELSE 0
  IN IF newTimeSec # p.currentSongTimeSec
       THEN requestRedraw([p EXCEPT !.currentSongTimeSec = newTimeSec], FALSE)
       ELSE p

endOfSong(p) == ~p.decoderRunning /\ p.srcPos > 0 /\ p.srcPos >= FileSize

\* what the copy step of this pass can meet: it is skipped while the decoder
\* is not running, and the stream ends only after the file has been read
copyOutcomes ==
  IF ~decoderRunning THEN {"notRunning"}
  ELSE IF srcPos < FileSize THEN {"idle", "data"} ELSE {"idle", "end"}

\* one pass of the audio sketch's loop() up to the dispatch, dt ms after the
\* previous one
LoopTopAudioAt(dt) ==
  /\ sketch = "audio" /\ handler = "idle" /\ fault = "none"
  /\ \E fell \in SUBSET Buttons, c \in copyOutcomes :
       /\ Debounced(dt, fell)
       /\ LET p1 == copy(CurPlayer, c)
              playing == currentState = "STATE_PLAYING" /\ p1.isPlaying
              p2 == IF playing THEN updateTime(p1) ELSE p1
              ended == playing /\ endOfSong(p2)
          IN /\ \E openOK \in (IF ended THEN BOOLEAN ELSE {TRUE}) :
                  SetPlayer(IF ended THEN handleNextSong(p2, openOK) ELSE p2)
             /\ Dispatch(dt, fell, IF ended THEN "EndOfTrack" ELSE "LoopTop", c)
  /\ UNCHANGED <<catalogVars, browseVars, menuVars, screenVars, i2sPaused>>

LoopTopAudio == \E dt \in TimeSteps : LoopTopAudioAt(dt)

\* the mock one-second timer
tickDue(p) == p.sinceTick > TICK_MS

\* mutation of tick: the end of the track is not acted on
tick_NoAdvance(p) ==
  IF tickDue(p)
    THEN requestRedraw([p EXCEPT !.currentSongTimeSec = @ + 1,
                                 !.sinceTick = 0], FALSE)
    ELSE p

tick(p) ==
  IF tickDue(p)
    THEN LET p1 == [p EXCEPT !.currentSongTimeSec = @ + 1, !.sinceTick = 0]
             p2 == IF p1.currentSongTimeSec > p1.songDurationSec
                     THEN handleNextSongMock(p1) ELSE p1
         IN requestRedraw(p2, FALSE)
    ELSE p

\* one pass of the mock sketch's loop() up to the dispatch, dt ms after the
\* previous one
LoopTopMockAt(dt) ==
  /\ sketch = "mock" /\ handler = "idle" /\ fault = "none"
  /\ \E fell \in SUBSET Buttons :
       /\ Debounced(dt, fell)
       /\ LET p0 == [CurPlayer EXCEPT !.sinceTick = Sat(@ + dt, TICK_MS + 1)]
              playing == currentState = "STATE_PLAYING" /\ isPlaying
              p1 == IF playing THEN tick(p0) ELSE p0
              ended == /\ playing /\ tickDue(p0)
                       /\ currentSongTimeSec + 1 > songDurationSec
          IN /\ playing /\ tickDue(p0) =>
                  \/ currentSongTimeSec < MaxElapsed
                  \/ currentSongTimeSec >= songDurationSec - MaxElapsed
             /\ SetPlayer(p1)
             /\ Dispatch(dt, fell, IF ended THEN "EndOfTrack" ELSE "LoopTop", "")
  /\ UNCHANGED <<catalogVars, browseVars, menuVars, screenVars, i2sPaused>>

LoopTopMock == \E dt \in TimeSteps : LoopTopMockAt(dt)

\* --------------------------------------------------------------- handlers
\* a block runs when its button fell and the blocks before it are done
Block(h, b) ==
  /\ handler = h /\ fault = "none"
  /\ b \in pending
  /\ \A b2 \in pending : b2 = b \/ (b = "select") \/ (b = "next" /\ b2 = "prev")
  /\ pending' = pending \ {b}
  /\ UNCHANGED <<uptime, handler, recent, painted>>

HomeSelect ==
  /\ Block("home", "select")
  /\ currentState' = "STATE_MENU"
  /\ currentMenu' = "MENU_MAIN"
  /\ currentMenuItems' = populateMenuItems("MENU_MAIN", songs, artists, albums)
  /\ SetPlayer(requestRedraw(CurPlayer, TRUE))
  /\ lastStep' = <<"HomeSelect", "">>
  /\ UNCHANGED <<catalogVars, browseVars, selectedMenuIndex, menuOffset, previousState,
                 i2sPaused, clickVars, frameVars>>

\* mutation of handleBackButton: selection and scroll offset are not reset
handleBackButton_KeepSelection ==
  /\ IF currentMenu = "MENU_MAIN"
       THEN currentState' = "STATE_HOME" /\ currentMenu' = currentMenu
       ELSE currentMenu' = "MENU_MAIN" /\ currentState' = currentState
  /\ UNCHANGED <<selectedMenuIndex, menuOffset>>
  /\ currentMenuItems' = populateMenuItems(currentMenu', songs, artists, albums)
  /\ SetPlayer(requestRedraw(CurPlayer, TRUE))

\* handleBackButton()
handleBackButton ==
  /\ IF currentMenu = "MENU_MAIN"
       THEN currentState' = "STATE_HOME" /\ currentMenu' = currentMenu
       ELSE currentMenu' = "MENU_MAIN" /\ currentState' = currentState
  /\ selectedMenuIndex' = 0
  /\ menuOffset' = 0
  /\ currentMenuItems' = populateMenuItems(currentMenu', songs, artists, albums)
  /\ SetPlayer(requestRedraw(CurPlayer, TRUE))

\* mutation of mainMenuTarget: "Music" opens the Artists menu
mainMenuTarget_MusicToArtists(index) ==
  CASE index = 0 -> "MENU_ARTISTS"
    [] index = 1 -> "MENU_ARTISTS"
    [] index = 2 -> "MENU_ALBUMS"
    [] index = 3 -> "MENU_SONGS"
    [] OTHER     -> currentMenu

\* case MENU_MAIN of the select block
mainMenuTarget(index) ==
  CASE index = 0 -> "MENU_SONGS"
    [] index = 1 -> "MENU_ARTISTS"
    [] index = 2 -> "MENU_ALBUMS"
    [] index = 3 -> "MENU_SONGS"
    [] OTHER     -> currentMenu

selectMainItem ==
  /\ currentMenu' = mainMenuTarget(selectedMenuIndex)
  /\ selectedMenuIndex' = 0
  /\ menuOffset' = 0
  /\ currentMenuItems' = populateMenuItems(currentMenu', songs, artists, albums)
  /\ SetPlayer(requestRedraw(CurPlayer, TRUE))
  /\ UNCHANGED currentState

\* case MENU_SONGS of the select block, mock sketch
playSelectedMock(p) ==
  requestRedraw(
    [p EXCEPT !.playingSongIndex = selectedMenuIndex,
              !.isPlaying = TRUE,
              !.currentSongTimeSec = 0,
              !.prevSongTimeSec = -1,
              !.songDurationSec = mockDuration(selectedMenuIndex),
              !.sinceTick = 0], TRUE)

selectSong ==
  /\ currentState' = "STATE_PLAYING"
  /\ IF sketch = "audio"
       THEN \E openOK \in BOOLEAN :
              SetPlayer(startPlayback(CurPlayer, selectedMenuIndex, openOK))
       ELSE SetPlayer(playSelectedMock(CurPlayer))
  /\ UNCHANGED menuVars

\* mutation of backSelected: compared with size() instead of size() - 1
backSelected_OffByOne == selectedMenuIndex = Len(currentMenuItems)

\* mutation of backSelected: the test is made for the main menu only
backSelected_MainOnly ==
  currentMenu = "MENU_MAIN" /\ selectedMenuIndex = Len(currentMenuItems) - 1

\* is the Back entry selected
backSelected == selectedMenuIndex = Len(currentMenuItems) - 1

\* mutation of MenuSelect: an artist or album opens the Songs menu
MenuSelect_OpensSongs ==
  /\ Block("menu", "select")
  /\ IF backSelected THEN handleBackButton
     ELSE CASE currentMenu = "MENU_MAIN"  -> selectMainItem
            [] currentMenu = "MENU_SONGS" -> selectSong
            [] OTHER ->
                 /\ currentMenu' = "MENU_SONGS"
                 /\ selectedMenuIndex' = 0
                 /\ menuOffset' = 0
                 /\ currentMenuItems' =
                      populateMenuItems("MENU_SONGS", songs, artists, albums)
                 /\ SetPlayer(requestRedraw(CurPlayer, TRUE))
                 /\ UNCHANGED currentState
  /\ lastStep' = <<"MenuSelect", currentMenu>>
  /\ UNCHANGED <<catalogVars, browseVars, previousState, i2sPaused, clickVars, frameVars>>

MenuSelect ==
  /\ Block("menu", "select")
  /\ IF backSelected THEN handleBackButton
     ELSE CASE currentMenu = "MENU_MAIN"  -> selectMainItem
            [] currentMenu = "MENU_SONGS" -> selectSong
            [] OTHER -> UNCHANGED <<menuVars, currentState, playerVars>>
  /\ lastStep' = <<"MenuSelect", currentMenu>>
  /\ UNCHANGED <<catalogVars, browseVars, previousState, i2sPaused, clickVars, frameVars>>

\* mutation of nextIndex: the wrap is lost
nextIndex_NoWrap(index, size) == index + 1

\* selectedMenuIndex = (selectedMenuIndex + 1) % currentMenuItems.size()
nextIndex(index, size) == (index + 1) % size

\* the scroll adjustment of the next block, given the new index
offsetAfterNext(index, offset) ==
  IF index >= offset + max_items_on_screen
    THEN index - max_items_on_screen + 1
    ELSE offset

MenuNext ==
  /\ Block("menu", "next")
  /\ selectedMenuIndex' = nextIndex(selectedMenuIndex, Len(currentMenuItems))
  /\ menuOffset' = offsetAfterNext(selectedMenuIndex', menuOffset)
  /\ SetPlayer(requestRedraw(CurPlayer, FALSE))
  /\ lastStep' = <<"MenuNext", selectedMenuIndex>>
  /\ UNCHANGED <<catalogVars, browseVars, currentMenu, currentMenuItems, screenVars,
                 i2sPaused, clickVars, frameVars>>

\* mutation of prevIndex: below 0 the index wraps to the first item
prevIndex_WrapToFirst(index, size) == IF index - 1 < 0 THEN 0 ELSE index - 1

\* index--, and size - 1 when that is below 0
prevIndex(index, size) == IF index - 1 < 0 THEN size - 1 ELSE index - 1

\* mutation of offsetAfterPrev: the wrap does not move the window
offsetAfterPrev_NoSnap(index, offset, size) ==
  IF index - 1 < 0 THEN offset
  ELSE IF index - 1 < offset THEN index - 1 ELSE offset

\* the scroll adjustment of the prev block, given the old index
offsetAfterPrev(index, offset, size) ==
  IF index - 1 < 0 THEN max(0, size - max_items_on_screen)
  ELSE IF index - 1 < offset THEN index - 1 ELSE offset

MenuPrev ==
  /\ Block("menu", "prev")
  /\ selectedMenuIndex' = prevIndex(selectedMenuIndex, Len(currentMenuItems))
  /\ menuOffset' = offsetAfterPrev(selectedMenuIndex, menuOffset,
                                   Len(currentMenuItems))
  /\ SetPlayer(requestRedraw(CurPlayer, FALSE))
  /\ lastStep' = <<"MenuPrev", IF lastStep[1] = "MenuNext" THEN "afterNext"
                                                          ELSE "">>
  /\ UNCHANGED <<catalogVars, browseVars, currentMenu, currentMenuItems, screenVars,
                 i2sPaused, clickVars, frameVars>>

\* mutation of PlayingSelect: the button pauses and never resumes
PlayingSelect_PauseOnly ==
  /\ Block("playing", "select")
  /\ SetPlayer(requestRedraw([CurPlayer EXCEPT !.prevIsPlaying = isPlaying,
                                               !.isPlaying = FALSE], FALSE))
  /\ i2sPaused' = IF sketch = "audio" THEN TRUE ELSE i2sPaused
  /\ lastStep' = <<"PlayingSelect", "">>
  /\ UNCHANGED <<catalogVars, browseVars, menuVars, screenVars, clickVars, frameVars>>

\* select block of handlePlayingInput
PlayingSelect ==
  /\ Block("playing", "select")
  /\ LET p1 == [CurPlayer EXCEPT !.prevIsPlaying = isPlaying,
                                 !.isPlaying = ~isPlaying]
         p2 == IF sketch = "mock" /\ p1.isPlaying
                 THEN [p1 EXCEPT !.sinceTick = 0] ELSE p1
     IN SetPlayer(requestRedraw(p2, FALSE))
  /\ i2sPaused' = IF sketch = "audio" THEN isPlaying ELSE i2sPaused
  /\ lastStep' = <<"PlayingSelect", "">>
  /\ UNCHANGED <<catalogVars, browseVars, menuVars, screenVars, clickVars, frameVars>>

\* next block of handlePlayingInput
PlayingNext ==
  /\ Block("playing", "next")
  /\ IF sketch = "audio"
       THEN \E openOK \in BOOLEAN :
              SetPlayer(handleNextSong(CurPlayer, openOK))
       ELSE SetPlayer(handleNextSongMock(CurPlayer))
  /\ lastStep' = <<"PlayingNext", "">>
  /\ UNCHANGED <<catalogVars, browseVars, menuVars, screenVars, i2sPaused, clickVars, frameVars>>

\* mutation of isDoubleClick: the threshold itself counts as a double click
isDoubleClick_Inclusive(sincePress) == sincePress <= DOUBLE_CLICK_MS

\* pressTime - lastPrevPressTime < DOUBLE_CLICK_MS
isDoubleClick(sincePress) == sincePress < DOUBLE_CLICK_MS

\* mutation of prevDouble: the double click leaves for the Home screen
prevDouble_ToHome ==
  /\ previousState' = currentState
  /\ currentState' = "STATE_HOME"
  /\ LET p1 == IF sketch = "audio" THEN stopPrevious(CurPlayer) ELSE CurPlayer
     IN SetPlayer(requestRedraw([p1 EXCEPT !.isPlaying = FALSE], TRUE))
  /\ sincePrevPress' = uptime

\* mutation of prevDouble: the press time is recorded instead of the sentinel 0
prevDouble_NoSentinel ==
  /\ previousState' = currentState
  /\ currentState' = "STATE_MENU"
  /\ LET p1 == IF sketch = "audio" THEN stopPrevious(CurPlayer) ELSE CurPlayer
     IN SetPlayer(requestRedraw([p1 EXCEPT !.isPlaying = FALSE], TRUE))
  /\ sincePrevPress' = 0

\* double click: back to the menu
prevDouble ==
  /\ previousState' = currentState
  /\ currentState' = "STATE_MENU"
  /\ LET p1 == IF sketch = "audio" THEN stopPrevious(CurPlayer) ELSE CurPlayer
     IN SetPlayer(requestRedraw([p1 EXCEPT !.isPlaying = FALSE], TRUE))
  /\ sincePrevPress' = uptime

\* mutation of prevSingle: the click is not recorded as the new reference
prevSingle_NoRecord ==
  /\ LET p1 == IF sketch = "audio" THEN [CurPlayer EXCEPT !.srcPos = 0]
               ELSE [CurPlayer EXCEPT !.sinceTick = 0]
     IN SetPlayer(requestRedraw(
          [p1 EXCEPT !.prevSongTimeSec = currentSongTimeSec,
                     !.currentSongTimeSec = 0], FALSE))
  /\ UNCHANGED sincePrevPress
  /\ UNCHANGED screenVars

\* single click: rewind
prevSingle ==
  /\ LET p1 == IF sketch = "audio" THEN [CurPlayer EXCEPT !.srcPos = 0]
               ELSE [CurPlayer EXCEPT !.sinceTick = 0]
     IN SetPlayer(requestRedraw(
          [p1 EXCEPT !.prevSongTimeSec = currentSongTimeSec,
                     !.currentSongTimeSec = 0], FALSE))
  /\ sincePrevPress' = 0
  /\ UNCHANGED screenVars

\* prev block of handlePlayingInput
PlayingPrev ==
  /\ Block("playing", "prev")
  /\ sinceClick' = 0
  /\ lastPrevKind' = IF isDoubleClick(sincePrevPress) THEN "double" ELSE "single"
  /\ IF isDoubleClick(sincePrevPress) THEN prevDouble ELSE prevSingle
  /\ lastStep' = <<"PlayingPrev", <<lastPrevKind, sinceClick>>>>
  /\ UNCHANGED <<catalogVars, browseVars, menuVars, i2sPaused, frameVars>>

\* ------------------------------------------------------------ the display
\* case STATE_MENU of updateDisplay(): the rows drawn, counted from menuOffset
itemsToDraw ==
  LET rows == (SCREEN_HEIGHT - y_start - 20) \div row_height
      left == Len(currentMenuItems) - menuOffset
  IN IF left < rows THEN left ELSE rows

\* mutation of shadowsAfterReset: a full redraw keeps the shadows
shadowsAfterReset_Keep(full) ==
  [playing |-> prevPlayingSongIndex, time |-> prevSongTimeSec,
   isPlaying |-> prevIsPlaying]

\* the shadows after the `if (needsFullRedraw)` part of updateDisplay
shadowsAfterReset(full) ==
  IF full
    THEN [playing |-> -1, time |-> -1, isPlaying |-> ~isPlaying]
    ELSE [playing |-> prevPlayingSongIndex, time |-> prevSongTimeSec,
          isPlaying |-> prevIsPlaying]

\* updateDisplay(), as the shadows, flags and painted regions it leaves
updateDisplay ==
  LET changed == currentState # previousState
      full == needsFullRedraw \/ changed
      sh == shadowsAfterReset(full)
      sPlaying == sh.playing
      sTime == sh.time
      sIsPlaying == sh.isPlaying
      inPlaying == currentState = "STATE_PLAYING"
      drawInfo == inPlaying /\ playingSongIndex # sPlaying
      drawTime == inPlaying /\ currentSongTimeSec # sTime
      drawIcon == inPlaying /\ isPlaying # sIsPlaying
      oob == drawInfo /\ ~(playingSongIndex \in 0..(Len(songs) - 1))
      count(b) == IF b THEN 1 ELSE 0
  IN /\ previousState' = currentState
     /\ needsFullRedraw' = FALSE
     /\ prevPlayingSongIndex' = IF drawInfo THEN playingSongIndex ELSE sPlaying
     /\ prevSongTimeSec' = IF drawTime THEN currentSongTimeSec ELSE sTime
     /\ prevIsPlaying' = IF drawIcon THEN isPlaying ELSE sIsPlaying
     /\ fault' = IF oob THEN "oob" ELSE fault
     /\ painted' =
          [screen |-> count(full) + count(currentState = "STATE_HOME"),
           menu   |-> count(currentState = "STATE_MENU"),
           info   |-> count(drawInfo),
           time   |-> count(drawTime),
           icon   |-> count(drawIcon),
           forced |-> {r \in {"info", "time", "icon"} :
                         \/ r = "info" /\ drawInfo
                              /\ playingSongIndex = prevPlayingSongIndex
                         \/ r = "time" /\ drawTime
                              /\ currentSongTimeSec = prevSongTimeSec
                         \/ r = "icon" /\ drawIcon
                              /\ isPlaying = prevIsPlaying}]

\* mutation of Redraw: the frame interval is not awaited
Redraw_NoRateLimit ==
  /\ sketch \in {"audio", "mock"}
  /\ handler # "idle" /\ pending = {} /\ fault = "none"
  /\ IF needsRedraw
       THEN /\ updateDisplay
            /\ sinceFrame' = 0
            /\ needsRedraw' = FALSE
            /\ lastStep' = <<"Repaint", "">>
       ELSE /\ lastStep' = <<"NoRepaint", "">>
            /\ UNCHANGED <<previousState, needsFullRedraw, prevPlayingSongIndex,
                           prevSongTimeSec, prevIsPlaying, fault,
                           sinceFrame, needsRedraw, painted>>
  /\ handler' = "idle"
  /\ openFailed' = FALSE
  /\ UNCHANGED <<catalogVars, browseVars, menuVars, currentState, playingSongIndex, isPlaying,
                 songDurationSec, currentSongTimeSec, sinceTick, sessions,
                 decoderRunning, srcPos, infoByteRate, i2sPaused, clickVars,
                 uptime, pending, recent>>

\* mutation of Redraw: a request that comes before the frame interval has
\* elapsed is dropped
Redraw_DropsEarlyRequest ==
  /\ sketch \in {"audio", "mock"}
  /\ handler # "idle" /\ pending = {} /\ fault = "none"
  /\ IF needsRedraw /\ (sinceFrame >= FRAME_TIME_MS)
       THEN /\ updateDisplay
            /\ sinceFrame' = 0
            /\ needsRedraw' = FALSE
            /\ lastStep' = <<"Repaint", "">>
       ELSE /\ lastStep' = <<"NoRepaint", "">>
            /\ needsRedraw' = FALSE
            /\ UNCHANGED <<previousState, needsFullRedraw, prevPlayingSongIndex,
                           prevSongTimeSec, prevIsPlaying, fault,
                           sinceFrame, painted>>
  /\ handler' = "idle"
  /\ openFailed' = FALSE
  /\ UNCHANGED <<catalogVars, browseVars, menuVars, currentState, playingSongIndex, isPlaying,
                 songDurationSec, currentSongTimeSec, sinceTick, sessions,
                 decoderRunning, srcPos, infoByteRate, i2sPaused, clickVars,
                 uptime, pending, recent>>

\* the rate-limited repaint that ends a pass of loop()
Redraw ==
  /\ sketch \in {"audio", "mock"}
  /\ handler # "idle" /\ pending = {} /\ fault = "none"
  /\ IF needsRedraw /\ (sinceFrame >= FRAME_TIME_MS)
       THEN /\ updateDisplay
            /\ sinceFrame' = 0
            /\ needsRedraw' = FALSE
            /\ lastStep' = <<"Repaint", "">>
       ELSE /\ lastStep' = <<"NoRepaint", "">>
            /\ UNCHANGED <<previousState, needsFullRedraw, prevPlayingSongIndex,
                           prevSongTimeSec, prevIsPlaying, fault,
                           sinceFrame, needsRedraw, painted>>
  /\ handler' = "idle"
  /\ openFailed' = FALSE
  /\ UNCHANGED <<catalogVars, browseVars, menuVars, currentState, playingSongIndex, isPlaying,
                 songDurationSec, currentSongTimeSec, sinceTick, sessions,
                 decoderRunning, srcPos, infoByteRate, i2sPaused, clickVars,
                 uptime, pending, recent>>

Next ==
  \/ LoopTopAudio
  \/ LoopTopMock
  \/ HomeSelect
  \/ MenuSelect
  \/ MenuNext
  \/ MenuPrev
  \/ PlayingSelect
  \/ PlayingNext
  \/ PlayingPrev
  \/ Redraw

Spec == Init /\ [][Next]_vars

\* ------------------------------------------------ loop() that keeps running
\* a pass of loop() that starts later on the clock than the one before
ClockAdvance ==
  \E dt \in TimeSteps \ {0} : LoopTopAudioAt(dt) \/ LoopTopMockAt(dt)

\* setup() has found a store of one track and has taken more than the
\* double-click interval
LiveBootTimes == {600}

InitLive ==
  \E sk \in {"audio", "mock"} :
    \E boot \in LiveBootTimes :
      AfterSetup(sk, [status |-> "ok", doc |-> StoreDoc(1)], boot)

\* loop() is called again and again, and millis() does not stand still
SpecLive ==
  InitLive /\ [][Next]_vars /\ WF_vars(Next) /\ []<><<ClockAdvance>>_vars

\* ------------------------------------------- the last seconds of a track
\* the mock sketch on the Playing screen, MaxElapsed ticks before the
\* duration of track idx, chosen in the Songs menu, is reached
NearEndValues(st, idx) ==
  LET r == SetupValues("mock", st, DOUBLE_CLICK_MS) IN
    [r EXCEPT !.currentMenu = "MENU_SONGS",
              !.currentMenuItems =
                  populateMenuItems("MENU_SONGS", r.songs, r.artists, r.albums),
              !.currentState = "STATE_PLAYING",
              !.previousState = "STATE_MENU",
              !.selectedMenuIndex = idx,
              !.playingSongIndex = idx,
              !.isPlaying = TRUE,
              !.songDurationSec = mockDuration(idx),
              !.currentSongTimeSec = mockDuration(idx) - MaxElapsed,
              !.prevSongTimeSec = mockDuration(idx) - MaxElapsed,
              !.prevIsPlaying = TRUE,
              !.prevPlayingSongIndex = idx,
              !.sinceTick = 0,
              !.sinceFrame = 0,
              !.needsRedraw = FALSE,
              !.needsFullRedraw = FALSE,
              !.lastStep = <<"Repaint", "">>]

InitEnd ==
  \E st \in Stores :
    \E idx \in 0..(Len(loadMetadata(st).songs) - 1) :
      StateIs(NearEndValues(st, idx))

NextMock ==
  \/ LoopTopMock
  \/ HomeSelect
  \/ MenuSelect
  \/ MenuNext
  \/ MenuPrev
  \/ PlayingSelect
  \/ PlayingNext
  \/ PlayingPrev
  \/ Redraw

SpecEnd == InitEnd /\ [][NextMock]_vars

\* ------------------------------------------- the character-LCD sketch
\* src/lcdScreen1/lcdScreen1.ino, lines 1-197.  loop() updates the buttons and
\* runs its three `if (btn.fell())` blocks in the order select, next, prev.
StaticSongList ==
  <<"Song 1.mp3", "Track 2 - Artist", "My Favorite Tune", "Audiofile_004",
    "B-Side", "Podcast Ep. 12">>

numSongs == Len(songList)

LcdBootTimes == {1000}
OledBootTimes == {1500}

\* variables of the TFT sketches that the list sketches do not have
tftOnlyVars ==
  <<store, songs, artists, albums, menuVars, previousState, prevSongTimeSec,
    prevIsPlaying, prevPlayingSongIndex, sinceFrame, sinceClick, lastPrevKind,
    needsRedraw,
    needsFullRedraw, sessions, decoderRunning, i2sPaused, srcPos, infoByteRate,
    openFailed, painted>>

InitTftOnly ==
  /\ store = [status |-> "missing", doc |-> <<>>]
  /\ songs = <<>> /\ artists = <<>> /\ albums = <<>>
  /\ currentMenu = "MENU_MAIN" /\ currentMenuItems = MainMenuItems
  /\ selectedMenuIndex = 0 /\ menuOffset = 0
  /\ previousState = "STATE_HOME"
  /\ prevSongTimeSec = -1 /\ prevIsPlaying = FALSE /\ prevPlayingSongIndex = -1
  /\ sinceFrame = 0 /\ sinceClick = DOUBLE_CLICK_MS /\ lastPrevKind = "none"
  /\ needsRedraw = FALSE /\ needsFullRedraw = FALSE
  /\ sessions = 0 /\ decoderRunning = FALSE /\ i2sPaused = FALSE
  /\ srcPos = 0 /\ infoByteRate = 0 /\ openFailed = FALSE
  /\ painted = NoPaint

\* the list entry a screen prints: reading outside the list is undefined
readSong(index, f) == IF index \in 0..(numSongs - 1) THEN f ELSE "oob"

\* updateDisplay() of the list sketches, as the fault it can raise
updateDisplayList(state, selected, playing, f) ==
  IF state = "STATE_BROWSING"
    THEN readSong((selected + 1) % numSongs, readSong(selected, f))
    ELSE readSong(playing, f)

InitLcd ==
  \E boot \in LcdBootTimes :
    /\ sketch = "lcd"
    /\ songList = StaticSongList
    /\ currentState = "STATE_BROWSING"
    /\ selectedSongIndex = 0 /\ playingSongIndex = 0
    /\ isPlaying = FALSE /\ songDurationSec = 0 /\ currentSongTimeSec = 0
    /\ uptime = Sat(boot, DOUBLE_CLICK_MS)
    /\ sincePrevPress = Sat(boot, DOUBLE_CLICK_MS)
    /\ sinceTick = Sat(boot, TICK_MS + 1)
    /\ handler = "idle" /\ pending = {} /\ recent = {}
    /\ lastStep = <<"setup", "">>
    /\ fault = "none"
    /\ InitTftOnly

\* btn*.update() at the top of loop(); the three blocks follow
LoopTopLcd ==
  /\ sketch = "lcd" /\ pending = {} /\ fault = "none"
  /\ \E dt \in TimeSteps, fell \in SUBSET Buttons :
       /\ Debounced(dt, fell)
       /\ uptime' = Sat(uptime + dt, DOUBLE_CLICK_MS)
       /\ sincePrevPress' = Sat(sincePrevPress + dt, DOUBLE_CLICK_MS)
       /\ pending' = fell
       /\ recent' = IF dt < 2 * DEBOUNCE_MS THEN recent \cup fell ELSE fell
  /\ handler' = "lcd"
  /\ lastStep' = <<"LoopTop", "">>
  /\ UNCHANGED <<sketch, songList, tftOnlyVars, currentState, selectedSongIndex,
                 playingSongIndex, isPlaying, songDurationSec,
                 currentSongTimeSec, sinceTick, fault>>

\* mutation of LcdSelect: Select on a paused track returns to the browser
LcdSelect_PausedToBrowsing ==
  /\ Block("lcd", "select")
  /\ CASE currentState = "STATE_BROWSING" ->
            /\ playingSongIndex' = selectedSongIndex
            /\ currentState' = "STATE_PLAYING"
       [] currentState = "STATE_PLAYING" ->
            /\ currentState' = "STATE_PAUSED"
            /\ UNCHANGED playingSongIndex
       [] currentState = "STATE_PAUSED" ->
            /\ currentState' = "STATE_BROWSING"
            /\ UNCHANGED playingSongIndex
  /\ fault' = updateDisplayList(currentState', selectedSongIndex,
                                playingSongIndex', fault)
  /\ lastStep' = <<"LcdSelect", currentState>>
  /\ UNCHANGED <<sketch, songList, tftOnlyVars, selectedSongIndex, isPlaying,
                 songDurationSec, currentSongTimeSec, sinceTick,
                 sincePrevPress>>

\* Button 3: select / play / pause
LcdSelect ==
  /\ Block("lcd", "select")
  /\ CASE currentState = "STATE_BROWSING" ->
            /\ playingSongIndex' = selectedSongIndex
            /\ currentState' = "STATE_PLAYING"
       [] currentState = "STATE_PLAYING" ->
            /\ currentState' = "STATE_PAUSED"
            /\ UNCHANGED playingSongIndex
       [] currentState = "STATE_PAUSED" ->
            /\ currentState' = "STATE_PLAYING"
            /\ UNCHANGED playingSongIndex
  /\ fault' = updateDisplayList(currentState', selectedSongIndex,
                                playingSongIndex', fault)
  /\ lastStep' = <<"LcdSelect", currentState>>
  /\ UNCHANGED <<sketch, songList, tftOnlyVars, selectedSongIndex, isPlaying,
                 songDurationSec, currentSongTimeSec, sinceTick,
                 sincePrevPress>>

\* Button 2: next / down
LcdNext ==
  /\ Block("lcd", "next")
  /\ IF currentState = "STATE_BROWSING"
       THEN /\ selectedSongIndex' = nextIndex(selectedSongIndex, numSongs)
            /\ UNCHANGED <<playingSongIndex, currentState>>
            /\ lastStep' = <<"LcdBrowseNext", selectedSongIndex>>
       ELSE /\ playingSongIndex' = nextIndex(playingSongIndex, numSongs)
            /\ currentState' = "STATE_PLAYING"
            /\ UNCHANGED selectedSongIndex
            /\ lastStep' = <<"LcdNextSong", playingSongIndex>>
  /\ fault' = updateDisplayList(currentState', selectedSongIndex',
                                playingSongIndex', fault)
  /\ UNCHANGED <<sketch, songList, tftOnlyVars, isPlaying, songDurationSec,
                 currentSongTimeSec, sinceTick, sincePrevPress>>

\* Button 1: prev / up / rewind, with the double click
LcdPrev ==
  /\ Block("lcd", "prev")
  /\ IF currentState = "STATE_BROWSING"
       THEN /\ selectedSongIndex' = prevIndex(selectedSongIndex, numSongs)
            /\ UNCHANGED <<playingSongIndex, currentState, sincePrevPress>>
            /\ lastStep' = <<"LcdBrowsePrev", selectedSongIndex>>
       ELSE IF isDoubleClick(sincePrevPress)
         THEN /\ playingSongIndex' = prevIndex(playingSongIndex, numSongs)
              /\ currentState' = "STATE_PLAYING"
              /\ sincePrevPress' = uptime
              /\ UNCHANGED selectedSongIndex
              /\ lastStep' = <<"LcdPrevSong", playingSongIndex>>
         ELSE /\ sincePrevPress' = 0
              /\ UNCHANGED <<playingSongIndex, currentState, selectedSongIndex>>
              /\ lastStep' = <<"LcdRewind", playingSongIndex>>
  /\ fault' = updateDisplayList(currentState', selectedSongIndex',
                                playingSongIndex', fault)
  /\ UNCHANGED <<sketch, songList, tftOnlyVars, isPlaying, songDurationSec,
                 currentSongTimeSec, sinceTick>>

NextLcd ==
  \/ LoopTopLcd
  \/ LcdSelect
  \/ LcdNext
  \/ LcdPrev

\* ------------------------------------------ the static-list OLED sketch
\* src/unnamed/part_001, lines 1-330.  setup() leaves the splash screen, so
\* loop() dispatches to handleBrowsingInput or handlePlayingInput only.
InitOled ==
  \E boot \in OledBootTimes :
    /\ sketch = "oled"
    /\ songList = StaticSongList
    /\ currentState = "STATE_BROWSING"
    /\ selectedSongIndex = 0 /\ playingSongIndex = 0
    /\ isPlaying = FALSE
    /\ songDurationSec = MOCK_DURATION_INIT /\ currentSongTimeSec = 0
    /\ uptime = Sat(boot, DOUBLE_CLICK_MS)
    /\ sincePrevPress = Sat(boot, DOUBLE_CLICK_MS)
    /\ sinceTick = Sat(boot, TICK_MS + 1)
    /\ handler = "idle" /\ pending = {} /\ recent = {}
    /\ lastStep = <<"setup", "">>
    /\ fault = "none"
    /\ InitTftOnly

\* what the OLED actions leave alone besides the player record
oledFixedVars ==
  <<sketch, songList, store, songs, artists, albums, menuVars, previousState,
    sinceFrame, sinceClick, lastPrevKind, i2sPaused, painted>>

drawOled(p, state, selected) ==
  [p EXCEPT !.fault = updateDisplayList(state, selected, p.playingSongIndex, @)]

handleNextSongOled(p) ==
  LET idx == nextIndex(p.playingSongIndex, numSongs)
  IN drawOled([p EXCEPT !.playingSongIndex = idx,
                        !.isPlaying = TRUE,
                        !.currentSongTimeSec = 0,
                        !.songDurationSec = mockDuration(idx),
                        !.sinceTick = 0], "STATE_PLAYING", selectedSongIndex)

handlePrevSongOled(p) ==
  LET idx == prevIndex(p.playingSongIndex, numSongs)
  IN drawOled([p EXCEPT !.playingSongIndex = idx,
                        !.isPlaying = TRUE,
                        !.currentSongTimeSec = 0,
                        !.songDurationSec = mockDuration(idx),
                        !.sinceTick = 0], "STATE_PLAYING", selectedSongIndex)

\* the mock playback timer at the top of loop()
tickOled(p) ==
  IF tickDue(p)
    THEN LET p1 == [p EXCEPT !.currentSongTimeSec = @ + 1, !.sinceTick = 0]
         IN IF p1.currentSongTimeSec > p1.songDurationSec
              THEN handleNextSongOled(p1)
              ELSE drawOled(p1, "STATE_PLAYING", selectedSongIndex)
    ELSE p

LoopTopOled ==
  /\ sketch = "oled" /\ pending = {} /\ fault = "none"
  /\ \E dt \in TimeSteps, fell \in SUBSET Buttons :
       /\ Debounced(dt, fell)
       /\ LET p0 == [CurPlayer EXCEPT !.sinceTick = Sat(@ + dt, TICK_MS + 1)]
              playing == currentState = "STATE_PLAYING" /\ isPlaying
          IN /\ playing /\ tickDue(p0) => currentSongTimeSec < MaxElapsed
             /\ SetPlayer(IF playing THEN tickOled(p0) ELSE p0)
       /\ uptime' = Sat(uptime + dt, DOUBLE_CLICK_MS)
       /\ sincePrevPress' = Sat(sincePrevPress + dt, DOUBLE_CLICK_MS)
       /\ pending' = fell
       /\ recent' = IF dt < 2 * DEBOUNCE_MS THEN recent \cup fell ELSE fell
  /\ handler' = IF currentState = "STATE_BROWSING" THEN "oledBrowsing"
                                                   ELSE "oledPlaying"
  /\ lastStep' = <<"LoopTop", "">>
  /\ UNCHANGED <<oledFixedVars, currentState, selectedSongIndex>>

\* Button 3 of handleBrowsingInput: select song
OledBrowseSelect ==
  /\ Block("oledBrowsing", "select")
  /\ currentState' = "STATE_PLAYING"
  /\ SetPlayer(drawOled([CurPlayer EXCEPT
                           !.playingSongIndex = selectedSongIndex,
                           !.isPlaying = TRUE,
                           !.currentSongTimeSec = 0,
                           !.songDurationSec = mockDuration(selectedSongIndex),
                           !.sinceTick = 0],
                        "STATE_PLAYING", selectedSongIndex))
  /\ lastStep' = <<"OledBrowseSelect", selectedSongIndex>>
  /\ UNCHANGED <<oledFixedVars, selectedSongIndex, sincePrevPress>>

\* Button 2 of handleBrowsingInput: scroll down
OledBrowseNext ==
  /\ Block("oledBrowsing", "next")
  /\ selectedSongIndex' = nextIndex(selectedSongIndex, numSongs)
  /\ SetPlayer(drawOled(CurPlayer, currentState, selectedSongIndex'))
  /\ lastStep' = <<"OledBrowseNext", selectedSongIndex>>
  /\ UNCHANGED <<oledFixedVars, currentState, sincePrevPress>>

\* Button 1 of handleBrowsingInput: scroll up
OledBrowsePrev ==
  /\ Block("oledBrowsing", "prev")
  /\ selectedSongIndex' = prevIndex(selectedSongIndex, numSongs)
  /\ SetPlayer(drawOled(CurPlayer, currentState, selectedSongIndex'))
  /\ lastStep' = <<"OledBrowsePrev", selectedSongIndex>>
  /\ UNCHANGED <<oledFixedVars, currentState, sincePrevPress>>

\* Button 3 of handlePlayingInput: play / pause toggle
OledPlayingSelect ==
  /\ Block("oledPlaying", "select")
  /\ LET p1 == [CurPlayer EXCEPT !.isPlaying = ~isPlaying]
         p2 == IF p1.isPlaying THEN [p1 EXCEPT !.sinceTick = 0] ELSE p1
     IN SetPlayer(drawOled(p2, currentState, selectedSongIndex))
  /\ lastStep' = <<"OledPlayingSelect", "">>
  /\ UNCHANGED <<oledFixedVars, currentState, selectedSongIndex, sincePrevPress>>

\* Button 2 of handlePlayingInput: next song
OledPlayingNext ==
  /\ Block("oledPlaying", "next")
  /\ SetPlayer(handleNextSongOled(CurPlayer))
  /\ lastStep' = <<"OledPlayingNext", playingSongIndex>>
  /\ UNCHANGED <<oledFixedVars, currentState, selectedSongIndex, sincePrevPress>>

\* Button 1 of handlePlayingInput: the interval is taken from lastTimeUpdate
OledPlayingPrev ==
  /\ Block("oledPlaying", "prev")
  /\ IF isDoubleClick(sinceTick)
       THEN /\ SetPlayer(handlePrevSongOled(CurPlayer))
            /\ sincePrevPress' = uptime
            /\ lastStep' = <<"OledPrevSong", playingSongIndex>>
       ELSE /\ SetPlayer(drawOled([CurPlayer EXCEPT !.currentSongTimeSec = 0,
                                                    !.sinceTick = 0],
                                  currentState, selectedSongIndex))
            /\ sincePrevPress' = 0
            /\ lastStep' = <<"OledRewind", playingSongIndex>>
  /\ UNCHANGED <<oledFixedVars, currentState, selectedSongIndex>>

NextOled ==
  \/ LoopTopOled
  \/ OledBrowseSelect
  \/ OledBrowseNext
  \/ OledBrowsePrev
  \/ OledPlayingSelect
  \/ OledPlayingNext
  \/ OledPlayingPrev

\* ---------------------------------------------- the LittleFS OLED sketch
\* src/unnamed/part_001, lines 331-706.  The song list is read from the
\* filesystem in setup(); loop() returns before the handlers when it is
\* empty.  handleSplashInput is never dispatched: setup() leaves the splash
\* screen whenever the mount succeeds, and a failed mount leaves no songs.
FsNames == <<"/a.mp3", "/b.mp3", "/c.mp3", "/d.mp3">>

\* the entries of the root directory, each a file or a directory
RootEntries ==
  UNION {[1..n -> {"file", "dir"}] : n \in 0..MaxSongs}

\* loadSongList(): the names of the entries that are not directories
loadSongList(root) ==
  LET kept == SelectSeq([i \in 1..Len(root) |-> i], LAMBDA i : root[i] = "file")
  IN [k \in 1..Len(kept) |-> FsNames[kept[k]]]

\* what setup() can meet: a failed mount, a root that does not open, entries
FsOutcomes ==
  {[mount |-> FALSE, open |-> FALSE, root |-> <<>>],
   [mount |-> TRUE, open |-> FALSE, root |-> <<>>]}
    \cup {[mount |-> TRUE, open |-> TRUE, root |-> r] : r \in RootEntries}

\* the screen updateDisplay() draws
screenFs(state, n) ==
  CASE state = "STATE_SPLASH" -> "ESP32 Player"
    [] state = "STATE_BROWSING" /\ n = 0 -> "No songs found!"
    [] state = "STATE_BROWSING" /\ n > 0 -> "Choose Song:"
    [] OTHER -> "Now Playing:"

\* updateDisplay(), as the fault its reads of songList can raise
updateDisplayFs(state, selected, playing, f) ==
  CASE state = "STATE_SPLASH" -> f
    [] state = "STATE_BROWSING" ->
         IF numSongs = 0 THEN f
         ELSE readSong((selected + 1) % numSongs, readSong(selected, f))
    [] OTHER -> readSong(playing, f)

drawFs(p, state, selected) ==
  [p EXCEPT !.fault = updateDisplayFs(state, selected, p.playingSongIndex, @)]

\* the globals at power-up, before setup() has run
InitOledFs ==
  /\ sketch = "oledfs"
  /\ songList = <<>>
  /\ currentState = "STATE_SPLASH"
  /\ selectedSongIndex = 0 /\ playingSongIndex = 0
  /\ isPlaying = FALSE
  /\ songDurationSec = MOCK_DURATION_INIT /\ currentSongTimeSec = 0
  /\ uptime = 0 /\ sincePrevPress = 0 /\ sinceTick = 0
  /\ handler = "boot" /\ pending = {} /\ recent = {}
  /\ lastStep = <<"powerup", "">>
  /\ fault = "none"
  /\ InitTftOnly

\* setup(): mount, loadSongList(), the splash screen, then the browser
SetupFs ==
  /\ sketch = "oledfs" /\ handler = "boot"
  /\ \E o \in FsOutcomes, boot \in OledBootTimes :
       IF ~o.mount
         THEN /\ lastStep' = <<"setup", "">>
              /\ UNCHANGED <<songList, currentState, uptime, sincePrevPress,
                             sinceTick>>
         ELSE LET list == IF o.open THEN loadSongList(o.root) ELSE <<>>
              IN /\ songList' = list
                 /\ currentState' = "STATE_BROWSING"
                 /\ lastStep' =
                      <<"setup", screenFs("STATE_BROWSING", Len(list))>>
                 /\ uptime' = Sat(boot, DOUBLE_CLICK_MS)
                 /\ sincePrevPress' = Sat(boot, DOUBLE_CLICK_MS)
                 /\ sinceTick' = Sat(boot, TICK_MS + 1)
  /\ handler' = "idle"
  /\ UNCHANGED <<sketch, tftOnlyVars, selectedSongIndex, playingSongIndex,
                 isPlaying, songDurationSec, currentSongTimeSec, pending,
                 recent, fault>>

handleNextSongFs(p) ==
  IF numSongs = 0 THEN [p EXCEPT !.fault = "div0"]
  ELSE
    LET idx == nextIndex(p.playingSongIndex, numSongs)
    IN drawFs([p EXCEPT !.playingSongIndex = idx,
                        !.isPlaying = TRUE,
                        !.currentSongTimeSec = 0,
                        !.songDurationSec = mockDuration(idx),
                        !.sinceTick = 0], "STATE_PLAYING", selectedSongIndex)

handlePrevSongFs(p) ==
  LET idx == prevIndex(p.playingSongIndex, numSongs)
  IN drawFs([p EXCEPT !.playingSongIndex = idx,
                      !.isPlaying = TRUE,
                      !.currentSongTimeSec = 0,
                      !.songDurationSec = mockDuration(idx),
                      !.sinceTick = 0], "STATE_PLAYING", selectedSongIndex)

\* the mock playback timer at the top of loop()
tickFs(p) ==
  IF tickDue(p)
    THEN LET p1 == [p EXCEPT !.currentSongTimeSec = @ + 1, !.sinceTick = 0]
         IN IF p1.currentSongTimeSec > p1.songDurationSec
              THEN handleNextSongFs(p1)
              ELSE drawFs(p1, "STATE_PLAYING", selectedSongIndex)
    ELSE p

\* mutation of dispatchFs: the handlers run on an empty list as well
dispatchFs_NoEmptyReturn(fell) ==
  [pending |-> fell,
   handler |-> IF currentState = "STATE_PLAYING" THEN "fsPlaying"
                                                 ELSE "fsBrowsing",
   detail |-> ""]

\* the return on an empty list, then the switch (currentState)
dispatchFs(fell) ==
  IF numSongs = 0
    THEN [pending |-> {}, handler |-> "idle",
          detail |-> IF fell = {} THEN "" ELSE "ignored"]
    ELSE [pending |-> fell,
          handler |-> IF currentState = "STATE_PLAYING" THEN "fsPlaying"
                                                        ELSE "fsBrowsing",
          detail |-> ""]

LoopTopFs ==
  /\ sketch = "oledfs" /\ handler # "boot" /\ pending = {} /\ fault = "none"
  /\ \E dt \in TimeSteps, fell \in SUBSET Buttons :
       /\ Debounced(dt, fell)
       /\ LET p0 == [CurPlayer EXCEPT !.sinceTick = Sat(@ + dt, TICK_MS + 1)]
              playing == currentState = "STATE_PLAYING" /\ isPlaying
          IN /\ playing /\ tickDue(p0) => currentSongTimeSec < MaxElapsed
             /\ SetPlayer(IF playing THEN tickFs(p0) ELSE p0)
       /\ uptime' = Sat(uptime + dt, DOUBLE_CLICK_MS)
       /\ sincePrevPress' = Sat(sincePrevPress + dt, DOUBLE_CLICK_MS)
       /\ pending' = dispatchFs(fell).pending
       /\ handler' = dispatchFs(fell).handler
       /\ lastStep' = <<"LoopTop", dispatchFs(fell).detail>>
       /\ recent' = IF dt < 2 * DEBOUNCE_MS THEN recent \cup fell ELSE fell
  /\ UNCHANGED <<oledFixedVars, currentState, selectedSongIndex>>

\* Button 3 of handleBrowsingInput: select song
FsBrowseSelect ==
  /\ Block("fsBrowsing", "select")
  /\ currentState' = "STATE_PLAYING"
  /\ SetPlayer(drawFs([CurPlayer EXCEPT
                         !.playingSongIndex = selectedSongIndex,
                         !.isPlaying = TRUE,
                         !.currentSongTimeSec = 0,
                         !.songDurationSec = mockDuration(selectedSongIndex),
                         !.sinceTick = 0],
                      "STATE_PLAYING", selectedSongIndex))
  /\ lastStep' = <<"FsBrowseSelect", selectedSongIndex>>
  /\ UNCHANGED <<oledFixedVars, selectedSongIndex, sincePrevPress>>

\* Button 2 of handleBrowsingInput: scroll down
FsBrowseNext ==
  /\ Block("fsBrowsing", "next")
  /\ IF numSongs = 0
       THEN /\ SetPlayer([CurPlayer EXCEPT !.fault = "div0"])
            /\ UNCHANGED selectedSongIndex
       ELSE /\ selectedSongIndex' = nextIndex(selectedSongIndex, numSongs)
            /\ SetPlayer(drawFs(CurPlayer, currentState, selectedSongIndex'))
  /\ lastStep' = <<"FsBrowseNext", selectedSongIndex>>
  /\ UNCHANGED <<oledFixedVars, currentState, sincePrevPress>>

\* Button 1 of handleBrowsingInput: scroll up
FsBrowsePrev ==
  /\ Block("fsBrowsing", "prev")
  /\ selectedSongIndex' = prevIndex(selectedSongIndex, numSongs)
  /\ SetPlayer(drawFs(CurPlayer, currentState, selectedSongIndex'))
  /\ lastStep' = <<"FsBrowsePrev", selectedSongIndex>>
  /\ UNCHANGED <<oledFixedVars, currentState, sincePrevPress>>

\* mutation of FsPlayingSelect: the resume keeps the old lastTimeUpdate
FsPlayingSelect_KeepsTimer ==
  /\ Block("fsPlaying", "select")
  /\ SetPlayer(drawFs([CurPlayer EXCEPT !.isPlaying = ~isPlaying],
                      currentState, selectedSongIndex))
  /\ lastStep' = <<"FsPlayingSelect", "">>
  /\ UNCHANGED <<oledFixedVars, currentState, selectedSongIndex, sincePrevPress>>

\* Button 3 of handlePlayingInput: play / pause toggle
FsPlayingSelect ==
  /\ Block("fsPlaying", "select")
  /\ LET p1 == [CurPlayer EXCEPT !.isPlaying = ~isPlaying]
         p2 == IF p1.isPlaying THEN [p1 EXCEPT !.sinceTick = 0] ELSE p1
     IN SetPlayer(drawFs(p2, currentState, selectedSongIndex))
  /\ lastStep' = <<"FsPlayingSelect", "">>
  /\ UNCHANGED <<oledFixedVars, currentState, selectedSongIndex, sincePrevPress>>

\* Button 2 of handlePlayingInput: next song
FsPlayingNext ==
  /\ Block("fsPlaying", "next")
  /\ SetPlayer(handleNextSongFs(CurPlayer))
  /\ lastStep' = <<"FsPlayingNext", playingSongIndex>>
  /\ UNCHANGED <<oledFixedVars, currentState, selectedSongIndex, sincePrevPress>>

\* Button 1 of handlePlayingInput: the interval since lastPrevPressTime
FsPlayingPrev ==
  /\ Block("fsPlaying", "prev")
  /\ IF isDoubleClick(sincePrevPress)
       THEN /\ SetPlayer(handlePrevSongFs(CurPlayer))
            /\ sincePrevPress' = uptime
            /\ lastStep' = <<"FsPrevSong", playingSongIndex>>
       ELSE /\ SetPlayer(drawFs([CurPlayer EXCEPT !.currentSongTimeSec = 0,
                                                  !.sinceTick = 0],
                                currentState, selectedSongIndex))
            /\ sincePrevPress' = 0
            /\ lastStep' = <<"FsRewind", playingSongIndex>>
  /\ UNCHANGED <<oledFixedVars, currentState, selectedSongIndex>>

NextFs ==
  \/ SetupFs
  \/ LoopTopFs
  \/ FsBrowseSelect
  \/ FsBrowseNext
  \/ FsBrowsePrev
  \/ FsPlayingSelect
  \/ FsPlayingNext
  \/ FsPlayingPrev

\* all five sketches
InitAll == Init \/ InitLcd \/ InitOled \/ InitOledFs

NextAll == Next \/ NextLcd \/ NextOled \/ NextFs

SpecAll == InitAll /\ [][NextAll]_vars

\* ------------------------------------------------- power-up and setup()
\* setup() of the TFT sketches as a step of its own, over metadata stores
\* whose entries repeat artists and albums in every order.
\* generateMetadata(): a duration the parser reports as <= 0 is written as 180
generateDuration(d) == IF d <= 0 THEN DEFAULT_DURATION ELSE d

\* the "duration" member of an entry of the store: written by generateMetadata
\* from what info.duration() returned (240 or 0), or found on the card as
\* another writer left it (absent, or 0)
Durations ==
  <<[present |-> TRUE, value |-> generateDuration(240)],
    [present |-> FALSE, value |-> 0],
    [present |-> TRUE, value |-> 0],
    [present |-> TRUE, value |-> generateDuration(0)]>>

Tags == [artist : {"A0", "A1"}, album : {"B0", "B1"}]

\* entry i of a store whose durations start at place k of Durations
LoadObj(i, tag, k) ==
  [StoreObj(i) EXCEPT !.artist = tag.artist, !.album = tag.album,
                      !.duration = Durations[((i + k) % Len(Durations)) + 1]]

LoadDocs ==
  UNION {{[i \in 1..n |-> LoadObj(i, f[i], k)] :
             f \in [1..n -> Tags], k \in 1..Len(Durations)} :
           n \in 0..MaxStoreLen}

LoadStores ==
  {[status |-> "missing", doc |-> <<>>],
   [status |-> "corrupt", doc |-> StoreDoc(1)]}
    \cup {[status |-> "ok", doc |-> d] : d \in LoadDocs}

\* the globals as their initialisers leave them, before setup() runs
InitBoot ==
  /\ sketch \in {"audio", "mock"}
  /\ store \in LoadStores
  /\ songs = <<>> /\ artists = <<>> /\ albums = <<>>
  /\ songList = <<>> /\ selectedSongIndex = 0
  /\ currentMenu = "MENU_MAIN" /\ currentMenuItems = <<>>
  /\ currentState = "STATE_HOME" /\ previousState = "STATE_HOME"
  /\ selectedMenuIndex = 0 /\ menuOffset = 0
  /\ playingSongIndex = 0 /\ isPlaying = FALSE
  /\ prevSongTimeSec = -1 /\ prevIsPlaying = FALSE
  /\ prevPlayingSongIndex = -1
  /\ songDurationSec = IF sketch = "mock" THEN MOCK_DURATION_INIT ELSE 0
  /\ currentSongTimeSec = 0
  /\ uptime = 0 /\ sinceTick = 0 /\ sincePrevPress = 0 /\ sinceFrame = 0
  /\ sinceClick = DOUBLE_CLICK_MS /\ lastPrevKind = "none"
  /\ needsRedraw = TRUE /\ needsFullRedraw = TRUE
  /\ sessions = 0 /\ decoderRunning = FALSE /\ i2sPaused = FALSE
  /\ srcPos = 0 /\ infoByteRate = 0 /\ openFailed = FALSE
  /\ handler = "boot" /\ pending = {} /\ recent = {}
  /\ lastStep = <<"boot", "">>
  /\ painted = NoPaint
  /\ fault = "none"

\* setup(): loadMetadata(), populateMenuItems(), requestRedraw(true)
Setup ==
  /\ handler = "boot"
  /\ \E boot \in bootTimesOf(sketch) :
       LET r == SetupValues(sketch, store, boot) IN
         /\ sketch' = r.sketch
         /\ store' = r.store
         /\ songs' = r.songs
         /\ artists' = r.artists
         /\ albums' = r.albums
         /\ songList' = r.songList
         /\ selectedSongIndex' = r.selectedSongIndex
         /\ currentMenu' = r.currentMenu
         /\ currentMenuItems' = r.currentMenuItems
         /\ currentState' = r.currentState
         /\ previousState' = r.previousState
         /\ selectedMenuIndex' = r.selectedMenuIndex
         /\ menuOffset' = r.menuOffset
         /\ playingSongIndex' = r.playingSongIndex
         /\ isPlaying' = r.isPlaying
         /\ prevSongTimeSec' = r.prevSongTimeSec
         /\ prevIsPlaying' = r.prevIsPlaying
         /\ prevPlayingSongIndex' = r.prevPlayingSongIndex
         /\ songDurationSec' = r.songDurationSec
         /\ currentSongTimeSec' = r.currentSongTimeSec
         /\ uptime' = r.uptime
         /\ sinceTick' = r.sinceTick
         /\ sincePrevPress' = r.sincePrevPress
         /\ sinceClick' = r.sinceClick
         /\ lastPrevKind' = r.lastPrevKind
         /\ sinceFrame' = r.sinceFrame
         /\ needsRedraw' = r.needsRedraw
         /\ needsFullRedraw' = r.needsFullRedraw
         /\ sessions' = r.sessions
         /\ decoderRunning' = r.decoderRunning
         /\ i2sPaused' = r.i2sPaused
         /\ srcPos' = r.srcPos
         /\ infoByteRate' = r.infoByteRate
         /\ openFailed' = r.openFailed
         /\ handler' = r.handler
         /\ pending' = r.pending
         /\ recent' = r.recent
         /\ lastStep' = r.lastStep
         /\ painted' = r.painted
         /\ fault' = r.fault

SpecBoot == InitBoot /\ [][Setup]_vars

\* -------------------------------------- generateMetadata(), mock sketch
\* src/unnamed/part_000, lines 125-248.  A String is a sequence of its
\* characters; ".mp3" and the two default texts are kept as one element each.
NameChars == {"a", " ", "-", ".mp3"}

MetaNames == UNION {[1..n -> NameChars] : n \in 0..MaxNameLen}

UnknownArtist == <<"Unknown Artist">>
UnknownAlbum == <<"Unknown Album">>
Separator == <<" ", "-", " ">>

\* the ID3v1 block at the end of the file, when one is read
NoTag == [present |-> FALSE]

TagTitles == {<<>>, <<" ">>, <<"a">>, <<"a", " ", "-", " ", "a">>}
TagArtists == {<<>>, <<"a", " ">>, UnknownArtist}
TagAlbums == {<<>>, <<"a">>}

MetaTags ==
  {NoTag} \cup
  {[present |-> TRUE, title |-> t, artist |-> a, album |-> b] :
     t \in TagTitles, a \in TagArtists, b \in TagAlbums}

\* String::endsWith(".mp3")
endsWithMp3(s) == Len(s) > 0 /\ s[Len(s)] = ".mp3"

\* String::replace(".mp3", ""): every occurrence is removed
replaceMp3(s) == SelectSeq(s, LAMBDA c : c # ".mp3")

RECURSIVE trimLeft(_)
trimLeft(s) ==
  IF Len(s) > 0 /\ Head(s) = " " THEN trimLeft(Tail(s)) ELSE s

RECURSIVE trimRight(_)
trimRight(s) ==
  IF Len(s) > 0 /\ s[Len(s)] = " "
    THEN trimRight(SubSeq(s, 1, Len(s) - 1)) ELSE s

\* String::trim()
trim(s) == trimRight(trimLeft(s))

\* String::indexOf(pat): the first position, counted from 0, or -1
indexOf(s, pat) ==
  LET hits == {i \in 1..(Len(s) - Len(pat) + 1) :
                 SubSeq(s, i, i + Len(pat) - 1) = pat}
  IN IF hits = {} THEN -1
     ELSE (CHOOSE i \in hits : \A j \in hits : i <= j) - 1

\* String::substring(from, to), positions counted from 0, to exclusive
substring(s, from, to) == SubSeq(s, from + 1, to)

\* a field of the tag replaces the default when it is not blank
tagField(raw, default) ==
  IF Len(trim(raw)) > 0 THEN trim(raw) ELSE default

\* the entry generateMetadata() writes for one file of /music
metadataEntry(name, tag) ==
  LET stripped == replaceMp3(name)
      title == IF tag.present THEN tagField(tag.title, stripped) ELSE stripped
      artist == IF tag.present THEN tagField(tag.artist, UnknownArtist)
                               ELSE UnknownArtist
      album == IF tag.present THEN tagField(tag.album, UnknownAlbum)
                              ELSE UnknownAlbum
      dashPos == indexOf(title, Separator)
      split == artist = UnknownArtist /\ dashPos > 0
  IN [filename |-> name,
      title |-> IF split THEN trim(substring(title, dashPos + 3, Len(title)))
                         ELSE title,
      artist |-> IF split THEN trim(substring(title, 0, dashPos)) ELSE artist,
      album |-> album]

\* the card before the scan: one file in /music, no metadata.json
InitMeta ==
  /\ sketch = "mock"
  /\ \E n \in MetaNames, t \in MetaTags :
       store = [status |-> "missing", doc |-> <<>>,
                music |-> <<[name |-> n, tag |-> t]>>]
  /\ songs = <<>> /\ artists = <<>> /\ albums = <<>>
  /\ songList = <<>> /\ selectedSongIndex = 0
  /\ currentMenu = "MENU_MAIN" /\ currentMenuItems = <<>>
  /\ currentState = "STATE_HOME" /\ previousState = "STATE_HOME"
  /\ selectedMenuIndex = 0 /\ menuOffset = 0
  /\ playingSongIndex = 0 /\ isPlaying = FALSE
  /\ prevSongTimeSec = -1 /\ prevIsPlaying = FALSE
  /\ prevPlayingSongIndex = -1
  /\ songDurationSec = MOCK_DURATION_INIT
  /\ currentSongTimeSec = 0
  /\ uptime = 0 /\ sinceTick = 0 /\ sincePrevPress = 0 /\ sinceFrame = 0
  /\ sinceClick = DOUBLE_CLICK_MS /\ lastPrevKind = "none"
  /\ needsRedraw = TRUE /\ needsFullRedraw = TRUE
  /\ sessions = 0 /\ decoderRunning = FALSE /\ i2sPaused = FALSE
  /\ srcPos = 0 /\ infoByteRate = 0 /\ openFailed = FALSE
  /\ handler = "boot" /\ pending = {} /\ recent = {}
  /\ lastStep = <<"boot", "">>
  /\ painted = NoPaint
  /\ fault = "none"

\* generateMetadata(): one entry per .mp3 file, written to /metadata.json
GenerateMetadata ==
  /\ handler = "boot" /\ store.status = "missing"
  /\ LET mp3s == SelectSeq(store.music, LAMBDA f : endsWithMp3(f.name))
     IN store' = [store EXCEPT
                    !.status = "ok",
                    !.doc = [i \in 1..Len(mp3s) |->
                               metadataEntry(mp3s[i].name, mp3s[i].tag)]]
  /\ lastStep' = <<"generateMetadata", "">>
  /\ UNCHANGED <<sketch, songs, artists, albums, browseVars, menuVars,
                 screenVars, playerVars, i2sPaused, clickVars, frameVars,
                 uptime, handler, pending, recent, painted>>

SpecMeta == InitMeta /\ [][GenerateMetadata]_vars

\* ================================================================ claims

\* C1: on the Menu screen, after any Next or Prev edge, the selection lies in
\* the scroll window: 0 <= menuOffset <= selectedMenuIndex < menuOffset + 5,
\* also right after Next wraps from the last item to index 0.
C1_ScrollWindow ==
  (currentState = "STATE_MENU" /\ lastStep[1] \in {"MenuNext", "MenuPrev"})
    => /\ menuOffset >= 0
       /\ menuOffset <= selectedMenuIndex
       /\ selectedMenuIndex < menuOffset + 5

\* C2: in every state after setup the selection indexes an existing item:
\* 0 <= selectedMenuIndex < currentMenuItems.size().
C2_SelectionInRange ==
  /\ 0 <= selectedMenuIndex
  /\ selectedMenuIndex < Len(currentMenuItems)

\* back in the Songs menu after a visit to Playing, Prev has wrapped to "Back"
C2_Witness ==
  /\ currentState = "STATE_MENU" /\ currentMenu = "MENU_SONGS"
  /\ previousState = "STATE_PLAYING"
  /\ lastStep[1] = "MenuPrev"
  /\ Len(songs) >= 1
  /\ selectedMenuIndex = Len(currentMenuItems) - 1

\* C3: on the Playing screen a Next edge sets playingSongIndex to
\* (old + 1) mod N and resets currentSongTimeSec to 0.
C3_NextTrack ==
  [][lastStep'[1] = "PlayingNext" =>
       /\ playingSongIndex' = (playingSongIndex + 1) % Len(songs)
       /\ currentSongTimeSec' = 0]_vars

C5_OpenFailureAborts ==
  openFailed =>
    /\ ~isPlaying
    /\ lastStep[1] = "MenuSelect" => currentState = "STATE_MENU"
    /\ lastStep[1] \in {"PlayingNext", "EndOfTrack"} => currentState = "STATE_PLAYING"

\* C6 as stated: with an empty catalog a Select edge on the Songs menu changes
\* no state and isPlaying stays false.
C6_EmptySongsSelectNoChange ==
  [][(lastStep'[1] = "MenuSelect" /\ currentMenu = "MENU_SONGS" /\ Len(songs) = 0)
       => /\ UNCHANGED <<currentState, currentMenu, currentMenuItems,
                         selectedMenuIndex, playingSongIndex>>
          /\ ~isPlaying' /\ fault' = "none"]_vars

\* C6 amended: with an empty catalog a Select edge on the Songs menu selects
\* its only entry, "Back": the main menu becomes active with selection and
\* offset 0, the screen stays Menu, nothing is played and nothing crashes.
C6_EmptySongsSelectIsBack ==
  [][(lastStep'[1] = "MenuSelect" /\ currentMenu = "MENU_SONGS" /\ Len(songs) = 0)
       => /\ currentState' = "STATE_MENU"
          /\ currentMenu' = "MENU_MAIN"
          /\ currentMenuItems' = MainMenuItems
          /\ selectedMenuIndex' = 0 /\ menuOffset' = 0
          /\ playingSongIndex' = playingSongIndex
          /\ ~isPlaying' /\ fault' = "none"]_vars

\* Select has just been handled on the Songs menu of an empty catalog
C6_Witness ==
  /\ Len(songs) = 0
  /\ lastStep = <<"MenuSelect", "MENU_SONGS">>
  /\ currentMenu = "MENU_MAIN" /\ currentState = "STATE_MENU"

\* C7: no execution takes an index modulo an empty song list: with zero tracks
\* the Playing screen and its next-track, end-of-track handling are never
\* reached, the playing index stays 0 and isPlaying stays false.
C7_NoEmptyCatalogIndexing ==
  /\ fault # "div0"
  /\ Len(songs) = 0 =>
       /\ fault = "none"
       /\ currentState # "STATE_PLAYING" /\ handler # "playing"
       /\ lastStep[1] \notin {"PlayingNext", "EndOfTrack"}
       /\ playingSongIndex = 0 /\ ~isPlaying

\* a Next edge has been handled on the Songs menu of an empty catalog
C7_Witness ==
  /\ Len(songs) = 0
  /\ currentMenu = "MENU_SONGS" /\ currentState = "STATE_MENU"
  /\ lastStep[1] = "MenuNext"

\* C8: a step that changes the screen, the menu or the playing track leaves
\* needsRedraw and needsFullRedraw set; a step that changes the selection,
\* the elapsed time or isPlaying leaves needsRedraw set.
C8_MutationsRequestRedraw ==
  [][lastStep'[1] \notin {"Repaint", "NoRepaint"} =>
       /\ (\/ currentState' # currentState
           \/ currentMenu' # currentMenu
           \/ playingSongIndex' # playingSongIndex)
            => (needsRedraw' /\ needsFullRedraw')
       /\ (\/ selectedMenuIndex' # selectedMenuIndex
           \/ currentSongTimeSec' # currentSongTimeSec
           \/ isPlaying' # isPlaying)
            => needsRedraw']_vars

\* C9: audio sketch: at most one file is open at any time, the decoder runs
\* only on an open file, and off the Playing screen nothing is open or running.
C9_SingleSession ==
  /\ sessions <= 1
  /\ decoderRunning => sessions = 1
  /\ currentState # "STATE_PLAYING" => (sessions = 0 /\ ~decoderRunning)

\* Next has switched from one running track to another
C9_Witness ==
  /\ sketch = "audio"
  /\ lastStep[1] = "PlayingNext"
  /\ playingSongIndex # prevPlayingSongIndex
  /\ sessions = 1 /\ decoderRunning

\* C10: in any menu a Select edge on the last item performs Back navigation
\* and nothing else: Home from the main menu, the main menu from a sub-menu,
\* selection and offset 0, a full redraw requested, playback untouched.
C10_LastItemIsBack ==
  [][(lastStep'[1] = "MenuSelect" /\ selectedMenuIndex = Len(currentMenuItems) - 1)
       => /\ currentState' = (IF currentMenu = "MENU_MAIN" THEN "STATE_HOME"
                                                            ELSE "STATE_MENU")
          /\ currentMenu' = "MENU_MAIN"
          /\ currentMenuItems' = MainMenuItems
          /\ selectedMenuIndex' = 0 /\ menuOffset' = 0
          /\ needsRedraw' /\ needsFullRedraw'
          /\ UNCHANGED <<playingSongIndex, isPlaying, currentSongTimeSec,
                         songDurationSec, prevSongTimeSec, prevIsPlaying,
                         prevPlayingSongIndex, sessions, decoderRunning, srcPos,
                         i2sPaused, previousState, sincePrevPress, sinceTick,
                         sinceFrame, fault>>]_vars

\* Back has just been selected at the end of a non-empty Songs menu
C10_Witness ==
  /\ lastStep = <<"MenuSelect", "MENU_SONGS">>
  /\ Len(songs) >= 1
  /\ currentMenu = "MENU_MAIN" /\ currentState = "STATE_MENU"

\* C11: Back navigation from the main menu sets the screen to Home (the main
\* menu stays the active menu); from the Artists, Albums or Songs menu it makes
\* the main menu active and keeps the Menu screen; in both cases
\* selectedMenuIndex and menuOffset are 0 afterwards.
C11_BackNavigation ==
  [][(lastStep'[1] = "MenuSelect" /\ backSelected) =>
       /\ currentMenu = "MENU_MAIN"
            => (currentState' = "STATE_HOME" /\ currentMenu' = "MENU_MAIN")
       /\ currentMenu \in {"MENU_ARTISTS", "MENU_ALBUMS", "MENU_SONGS"}
            => (currentMenu' = "MENU_MAIN" /\ currentState' = "STATE_MENU")
       /\ selectedMenuIndex' = 0 /\ menuOffset' = 0]_vars

\* Back has just been selected on the main menu: the screen is Home again
C11_Witness ==
  /\ lastStep = <<"MenuSelect", "MENU_MAIN">>
  /\ currentState = "STATE_HOME" /\ currentMenu = "MENU_MAIN"
  /\ selectedMenuIndex = 0 /\ menuOffset = 0

\* C12: a Next edge followed by a Prev edge on the menu / browsing screen
\* returns the selection index to its original value, for every list length
\* >= 1 and every starting index, also across the wrap between the last index
\* and 0: after every Next block the Prev block's index step leads back, and
\* a Prev block run right after a Next block restores the index.
C12_NextPrevRoundTrip ==
  [][/\ lastStep'[1] = "MenuNext" =>
          /\ Len(currentMenuItems) >= 1
          /\ prevIndex(selectedMenuIndex', Len(currentMenuItems')) = selectedMenuIndex
     /\ lastStep'[1] \in {"LcdBrowseNext", "OledBrowseNext"} =>
          /\ numSongs >= 1
          /\ prevIndex(selectedSongIndex', numSongs) = selectedSongIndex
     /\ (lastStep[1] = "MenuNext" /\ lastStep'[1] = "MenuPrev")
          => selectedMenuIndex' = lastStep[2]
     /\ (lastStep[1] = "LcdBrowseNext" /\ lastStep'[1] = "LcdBrowsePrev")
          => selectedSongIndex' = lastStep[2]
     /\ (lastStep[1] = "OledBrowseNext" /\ lastStep'[1] = "OledBrowsePrev")
          => selectedSongIndex' = lastStep[2]]_vars

\* Next has wrapped from "Back" to index 0 and Prev has led back to "Back",
\* in a sub-menu of the TFT sketches
C12_Witness ==
  /\ lastStep = <<"MenuPrev", "afterNext">>
  /\ currentMenu = "MENU_ARTISTS" /\ Len(artists) >= 1
  /\ selectedMenuIndex = Len(currentMenuItems) - 1
  /\ menuOffset = 0

\* C13: in every reachable state of the TFT sketches the scroll offset is in
\* range: 0 <= menuOffset <= max(0, currentMenuItems.size() - 5).
C13_OffsetInRange ==
  /\ 0 <= menuOffset
  /\ menuOffset <= (IF Len(currentMenuItems) > 5
                      THEN Len(currentMenuItems) - 5 ELSE 0)

\* Prev has wrapped to the last entry of a menu longer than the window, and
\* the offset sits at its upper limit
C13_Witness ==
  /\ lastStep[1] = "MenuPrev"
  /\ Len(currentMenuItems) > 5
  /\ selectedMenuIndex = Len(currentMenuItems) - 1
  /\ menuOffset = Len(currentMenuItems) - 5

\* C14: a Prev edge on the Menu screen at index 0 sets selectedMenuIndex to
\* length - 1 and menuOffset to max(0, length - 5) (main menu, 6 items: index
\* 5, offset 1); at index > 0 it decrements the index and sets menuOffset to
\* the new index only if that is below the old menuOffset, and leaves
\* menuOffset unchanged otherwise.
C14_PrevStep ==
  [][lastStep'[1] = "MenuPrev" =>
       LET length == Len(currentMenuItems) IN
       /\ selectedMenuIndex = 0 =>
            /\ selectedMenuIndex' = length - 1
            /\ menuOffset' = (IF length - 5 > 0 THEN length - 5 ELSE 0)
            /\ (currentMenu = "MENU_MAIN")
                 => (selectedMenuIndex' = 5 /\ menuOffset' = 1)
       /\ selectedMenuIndex > 0 =>
            /\ selectedMenuIndex' = selectedMenuIndex - 1
            /\ (selectedMenuIndex' < menuOffset) => menuOffset' = selectedMenuIndex'
            /\ (selectedMenuIndex' >= menuOffset) => menuOffset' = menuOffset]_vars

\* the scenario of the main menu: Prev from index 0 has selected "Back" and
\* the window shows items 1 to 5
C14_Witness ==
  /\ lastStep[1] = "MenuPrev"
  /\ currentState = "STATE_MENU" /\ currentMenu = "MENU_MAIN"
  /\ currentMenuItems[selectedMenuIndex + 1] = "Back"
  /\ selectedMenuIndex = 5 /\ menuOffset = 1

\* C15: the screen is Home after setup and changes only along four edges:
\* Home to Menu (main menu) on Select; Menu to Playing on Select of a non-Back
\* item of the Songs menu; Playing to Menu on a double Prev; Menu to Home on
\* Select of Back in the main menu.  A pass of loop() that starts on Home and
\* handles no Select edge changes no screen, menu, selection or player state,
\* whatever Prev and Next edges arrive.
C15_ScreenEdges ==
  /\ (lastStep[1] = "setup" => currentState = "STATE_HOME")
  /\ [][/\ currentState' # currentState =>
             \/ /\ currentState = "STATE_HOME" /\ currentState' = "STATE_MENU"
                /\ lastStep'[1] = "HomeSelect"
                /\ currentMenu' = "MENU_MAIN" /\ currentMenuItems' = MainMenuItems
             \/ /\ currentState = "STATE_MENU" /\ currentState' = "STATE_PLAYING"
                /\ lastStep' = <<"MenuSelect", "MENU_SONGS">>
                /\ selectedMenuIndex # Len(currentMenuItems) - 1
             \/ /\ currentState = "STATE_PLAYING" /\ currentState' = "STATE_MENU"
                /\ lastStep'[1] = "PlayingPrev"
                /\ sincePrevPress < 300
             \/ /\ currentState = "STATE_MENU" /\ currentState' = "STATE_HOME"
                /\ lastStep' = <<"MenuSelect", "MENU_MAIN">>
                /\ selectedMenuIndex = Len(currentMenuItems) - 1
        /\ (/\ currentState = "STATE_HOME" /\ handler \in {"idle", "home"}
            /\ lastStep'[1] # "HomeSelect")
             => UNCHANGED <<currentState, currentMenu, currentMenuItems,
                            selectedMenuIndex, menuOffset, playingSongIndex,
                            isPlaying, currentSongTimeSec, songDurationSec,
                            sessions, decoderRunning>>]_vars

\* the whole cycle Home, Menu, Playing (second track), Menu, Home has been
\* walked, and Select on Back of the main menu has just led to Home
C15_Witness ==
  /\ lastStep = <<"MenuSelect", "MENU_MAIN">>
  /\ currentState = "STATE_HOME"
  /\ playingSongIndex = 1 /\ ~isPlaying

\* C16: whenever updateDisplay performs a full redraw while the Playing screen
\* is active, the song-info block, the progress / elapsed region and the
\* play-pause icon are each painted exactly once by that update, also when
\* playingSongIndex, currentSongTimeSec or isPlaying equal the shadow left by
\* the drawing before; afterwards each shadow equals its current value.
C16_FullRedrawRepaintsAll ==
  [][(/\ lastStep'[1] = "Repaint"
      /\ currentState = "STATE_PLAYING"
      /\ (needsFullRedraw \/ currentState # previousState))
       => /\ painted'.screen = 1
          /\ painted'.info = 1 /\ painted'.time = 1 /\ painted'.icon = 1
          /\ prevPlayingSongIndex' = playingSongIndex'
          /\ prevSongTimeSec' = currentSongTimeSec'
          /\ prevIsPlaying' = isPlaying'
          /\ ~needsFullRedraw' /\ fault' = "none"]_vars

\* a full redraw on Playing has painted the song info, the elapsed time and
\* the icon although the track, the time and the play state were the ones the
\* shadows already held
C16_Witness ==
  /\ lastStep[1] = "Repaint"
  /\ currentState = "STATE_PLAYING"
  /\ painted.screen = 1
  /\ painted.forced = {"info", "time", "icon"}

\* C17: in every pass of the audio sketch's loop() the audio copy step comes
\* first, then the input handler of the screen, then the conditional redraw;
\* the copy is made in every pass in which the decoder runs, whatever the
\* screen and whether or not a redraw is pending, and the pass neither handles
\* input nor draws before it.
C17_LoopOrder ==
  [][sketch = "audio" =>
       /\ handler = "idle" => lastStep'[1] \in {"LoopTop", "EndOfTrack"}
       /\ lastStep'[1] \in {"LoopTop", "EndOfTrack"} =>
            /\ handler = "idle" /\ handler' # "idle"
            /\ decoderRunning => lastStep'[2] \in CopyChoices
            /\ (/\ decoderRunning /\ lastStep'[2] = "data"
                /\ srcPos < FileSize) => srcPos' = srcPos + 1
            /\ UNCHANGED <<currentState, menuVars>>
            /\ painted' = NoPaint
       /\ lastStep'[1] \in {"HomeSelect", "MenuSelect", "MenuNext", "MenuPrev",
                            "PlayingSelect", "PlayingNext", "PlayingPrev"} =>
            /\ handler # "idle" /\ handler' = handler
            /\ painted' = NoPaint
       /\ lastStep'[1] \in {"Repaint", "NoRepaint"} =>
            /\ handler # "idle" /\ pending = {}
            /\ handler' = "idle"]_vars

\* the copy step has moved data to the decoder while the player was paused
\* and a redraw was pending
C17_Witness ==
  /\ sketch = "audio"
  /\ lastStep = <<"LoopTop", "data">>
  /\ currentState = "STATE_PLAYING" /\ ~isPlaying
  /\ needsRedraw /\ sinceFrame < FRAME_TIME_MS
  /\ decoderRunning /\ srcPos = FileSize

\* C18: after loadMetadata the artists list and the albums list hold exactly
\* the distinct artist / album strings of the loaded songs, without
\* duplicates, in order of first occurrence in the song list, and the song
\* list keeps the order of the metadata store.
C18_UniqueListsInOrder ==
  (lastStep[1] = "setup" /\ store.status = "ok") =>
    /\ Len(songs) = Len(store.doc)
    /\ \A i \in 1..Len(songs) :
         /\ songs[i].title = store.doc[i].title
         /\ songs[i].filename = store.doc[i].filename
         /\ songs[i].artist = store.doc[i].artist
         /\ songs[i].album = store.doc[i].album
    /\ \A i, j \in 1..Len(artists) : artists[i] = artists[j] => i = j
    /\ \A i, j \in 1..Len(albums) : albums[i] = albums[j] => i = j
    /\ {artists[i] : i \in 1..Len(artists)} = {songs[i].artist : i \in 1..Len(songs)}
    /\ {albums[i] : i \in 1..Len(albums)} = {songs[i].album : i \in 1..Len(songs)}
    /\ \A i, j \in 1..Len(artists) :
         i < j => \E k \in 1..Len(songs) :
                    /\ songs[k].artist = artists[i]
                    /\ \A m \in 1..k : songs[m].artist # artists[j]
    /\ \A i, j \in 1..Len(albums) :
         i < j => \E k \in 1..Len(songs) :
                    /\ songs[k].album = albums[i]
                    /\ \A m \in 1..k : songs[m].album # albums[j]

\* three songs by A1, A0, A1 on albums B0, B0, B1 have been loaded
C18_Witness ==
  /\ lastStep[1] = "setup"
  /\ Len(songs) = 3
  /\ <<songs[1].artist, songs[2].artist, songs[3].artist>> = <<"A1", "A0", "A1">>
  /\ <<songs[1].album, songs[2].album, songs[3].album>> = <<"B0", "B0", "B1">>
  /\ artists = <<"A1", "A0">> /\ albums = <<"B0", "B1">>

\* C19: if the metadata store cannot be opened or does not parse, the catalog
\* is empty (songs, artists and albums of length 0), setup() completes and
\* the device is on the Home screen with loop() running.
C19_StoreFailureGivesEmptyCatalog ==
  store.status # "ok" =>
    /\ Len(songs) = 0 /\ Len(artists) = 0 /\ Len(albums) = 0
    /\ fault = "none"
    /\ handler # "boot"
    /\ lastStep[1] = "setup" =>
         /\ currentState = "STATE_HOME"
         /\ handler = "idle" /\ pending = {}
         /\ currentMenuItems = MainMenuItems
         /\ needsRedraw /\ needsFullRedraw

\* with an unreadable store, loop() has run and painted the Home screen
C19_Witness ==
  /\ store.status = "corrupt" /\ Len(store.doc) >= 1
  /\ lastStep[1] = "Repaint"
  /\ currentState = "STATE_HOME" /\ previousState = "STATE_HOME"
  /\ painted.screen = 2
  /\ Len(songs) = 0

\* C20: at every loop boundary after setup, currentMenuItems is the item list
\* of currentMenu: the six fixed strings for the main menu, the unique artist
\* or album names followed by "Back", or every track title in catalog order
\* followed by "Back"; it is never empty and its last entry is "Back".
C20_MenuItemsMatchMenu ==
  handler = "idle" =>
    LET n == Len(currentMenuItems) IN
    /\ n >= 1 /\ currentMenuItems[n] = "Back"
    /\ currentMenu = "MENU_MAIN" =>
         currentMenuItems =
           <<"Music", "Artists", "Albums", "Songs", "Settings", "Back">>
    /\ currentMenu = "MENU_ARTISTS" =>
         /\ n = Len(artists) + 1
         /\ \A i \in 1..Len(artists) : currentMenuItems[i] = artists[i]
    /\ currentMenu = "MENU_ALBUMS" =>
         /\ n = Len(albums) + 1
         /\ \A i \in 1..Len(albums) : currentMenuItems[i] = albums[i]
    /\ currentMenu = "MENU_SONGS" =>
         /\ n = Len(songs) + 1
         /\ \A i \in 1..Len(songs) : currentMenuItems[i] = songs[i].title

\* a pass of loop() has ended on the Albums menu of a two-album catalog
C20_Witness ==
  /\ handler = "idle" /\ lastStep[1] = "Repaint"
  /\ currentState = "STATE_MENU" /\ currentMenu = "MENU_ALBUMS"
  /\ Len(albums) = 2
  /\ currentMenuItems = <<albums[1], albums[2], "Back">>

\* C21: on the main menu, Select at index 0 or 3 makes Songs the active menu,
\* at index 1 Artists, at index 2 Albums; on entering the sub-menu
\* selectedMenuIndex and menuOffset are 0 and the screen stays Menu.
C21_MainMenuSelect ==
  [][(lastStep' = <<"MenuSelect", "MENU_MAIN">> /\ selectedMenuIndex \in 0..3) =>
       /\ selectedMenuIndex \in {0, 3} => currentMenu' = "MENU_SONGS"
       /\ selectedMenuIndex = 1 => currentMenu' = "MENU_ARTISTS"
       /\ selectedMenuIndex = 2 => currentMenu' = "MENU_ALBUMS"
       /\ selectedMenuIndex' = 0 /\ menuOffset' = 0
       /\ currentState' = "STATE_MENU"]_vars

\* "Albums" (index 2) has just been selected on the main menu
C21_Witness ==
  /\ lastStep = <<"MenuSelect", "MENU_MAIN">>
  /\ currentMenu = "MENU_ALBUMS" /\ currentState = "STATE_MENU"
  /\ selectedMenuIndex = 0 /\ menuOffset = 0

\* C22: on the Songs menu, Select on the non-Back item at index i starts
\* playback of catalog entry i: afterwards the screen is Playing,
\* playingSongIndex = i, isPlaying is true and currentSongTimeSec = 0.
C22_SelectStartsPlayback ==
  [][(lastStep' = <<"MenuSelect", "MENU_SONGS">> /\ ~backSelected) =>
       /\ currentState' = "STATE_PLAYING"
       /\ playingSongIndex' = selectedMenuIndex
       /\ isPlaying'
       /\ currentSongTimeSec' = 0]_vars

\* C23: a Select edge on the Playing screen inverts isPlaying and changes
\* nothing else of the player state: the screen, playingSongIndex,
\* currentSongTimeSec, the active menu and the menu selection are unchanged;
\* two consecutive Select edges restore isPlaying, as no step of loop() between
\* two button blocks (the top of a pass, the end of a track, the repaint)
\* changes isPlaying.
C23_SelectTogglesOnly ==
  [][/\ lastStep'[1] = "PlayingSelect" =>
          /\ isPlaying' = ~isPlaying
          /\ currentState' = currentState /\ currentState = "STATE_PLAYING"
          /\ playingSongIndex' = playingSongIndex
          /\ currentSongTimeSec' = currentSongTimeSec
          /\ currentMenu' = currentMenu
          /\ currentMenuItems' = currentMenuItems
          /\ selectedMenuIndex' = selectedMenuIndex
          /\ menuOffset' = menuOffset
     /\ lastStep'[1] \in {"LoopTop", "EndOfTrack", "Repaint", "NoRepaint"} =>
          isPlaying' = isPlaying]_vars

\* mock sketch: playback was paused by one Select edge and the next one has
\* resumed it (only a Select edge clears isPlaying on the Playing screen, and
\* a Next edge in between would have set it)
C23_Witness ==
  /\ sketch = "mock"
  /\ lastStep[1] = "PlayingSelect" /\ currentState = "STATE_PLAYING"
  /\ isPlaying /\ ~prevIsPlaying

\* C24: a double-click Prev on the Playing screen stops playback (isPlaying
\* false, transport session closed) and returns to the Menu screen showing the
\* same menu, with the same items, selection index and scroll offset, that was
\* shown when Playing was entered: the step that enters Playing, every step
\* taken on the Playing screen and the double click itself leave the menu, its
\* items, the selection and the offset as they are.
C24_DoubleClickReturnsToMenu ==
  [][/\ (lastStep'[1] = "PlayingPrev" /\ isDoubleClick(sincePrevPress)) =>
          /\ currentState = "STATE_PLAYING" /\ currentState' = "STATE_MENU"
          /\ ~isPlaying'
          /\ sessions' = 0 /\ ~decoderRunning'
     /\ (currentState = "STATE_PLAYING" \/ currentState' = "STATE_PLAYING") =>
          /\ currentMenu' = currentMenu
          /\ currentMenuItems' = currentMenuItems
          /\ selectedMenuIndex' = selectedMenuIndex
          /\ menuOffset' = menuOffset]_vars

\* C25: a single-click Prev on the Playing screen resets currentSongTimeSec to
\* 0 and records the click time as the new double-click reference, and leaves
\* the screen, playingSongIndex and isPlaying unchanged.
C25_SingleClickRewinds ==
  [][(lastStep'[1] = "PlayingPrev" /\ ~isDoubleClick(sincePrevPress)) =>
       /\ currentSongTimeSec' = 0
       /\ sincePrevPress' = 0
       /\ currentState' = currentState /\ currentState = "STATE_PLAYING"
       /\ playingSongIndex' = playingSongIndex
       /\ isPlaying' = isPlaying]_vars

\* a single click has just rewound a track that had played for one second
C25_Witness ==
  /\ lastStep[1] = "PlayingPrev" /\ currentState = "STATE_PLAYING"
  /\ prevSongTimeSec = 1 /\ currentSongTimeSec = 0
  /\ sincePrevPress = 0 /\ isPlaying

\* C26: updateDisplay runs in a pass of loop() only if needsRedraw is set and
\* at least FRAME_TIME_MS (33 ms) have passed since the previous repaint, so
\* two repaints are never less than 33 ms apart; needsRedraw is cleared only
\* in a pass that repainted, and needsFullRedraw is cleared only by a full
\* repaint (one that fills the screen).
C26_RateLimitedRepaint ==
  [][/\ lastStep'[1] = "Repaint" =>
          /\ needsRedraw
          /\ sinceFrame >= FRAME_TIME_MS
          /\ FRAME_TIME_MS = 33
     /\ painted' # NoPaint => lastStep'[1] = "Repaint"
     /\ (needsRedraw /\ ~needsRedraw') => lastStep'[1] = "Repaint"
     /\ (needsFullRedraw /\ ~needsFullRedraw') =>
          /\ lastStep'[1] = "Repaint"
          /\ painted'.screen >= 1 + (IF currentState = "STATE_HOME" THEN 1 ELSE 0)]_vars

\* a pass has ended without a repaint because the frame interval had not
\* elapsed: both redraw flags are still set
C26_Witness ==
  /\ lastStep[1] = "NoRepaint"
  /\ needsRedraw /\ needsFullRedraw
  /\ sinceFrame < FRAME_TIME_MS

\* C27: every track of the catalog loaded by the audio-decoding sketch has a
\* duration > 0: a duration that is absent from the metadata store or is <= 0
\* there is replaced by the fallback 180 on load.
C27_LoadedDurationPositive ==
  (sketch = "audio" /\ lastStep[1] = "setup" /\ store.status = "ok") =>
    \A i \in 1..Len(songs) :
      /\ songs[i].duration > 0
      /\ (~store.doc[i].duration.present \/ store.doc[i].duration.value <= 0)
           => songs[i].duration = 180

\* C28: after a double-click Prev has been recognised, the next Prev edge
\* handled on the Playing screen is treated as a single click (rewind)
\* whatever its timing; more generally a Prev edge is classified as a
\* double-click only if an earlier Prev edge was recorded as a single click on
\* the Playing screen less than 300 ms before it, so the first Prev edge after
\* boot is never a double-click.
C28_SentinelAfterDoubleClick ==
  [][lastStep'[1] = "PlayingPrev" =>
       /\ lastPrevKind = "double" =>
            /\ lastPrevKind' = "single"
            /\ currentState' = "STATE_PLAYING" /\ currentSongTimeSec' = 0
       /\ lastPrevKind' = "double" =>
            /\ currentState' = "STATE_MENU"
            /\ lastPrevKind = "single" /\ sinceClick < 300
       /\ lastPrevKind = "none" =>
            /\ lastPrevKind' = "single"
            /\ currentState' = "STATE_PLAYING"]_vars

\* a Prev edge 150 ms after a recognised double click (and a new selection of
\* a song in between) has been handled as a rewind
C28_Witness ==
  /\ lastStep = <<"PlayingPrev", <<"double", 150>>>>
  /\ lastPrevKind = "single"
  /\ currentState = "STATE_PLAYING" /\ currentSongTimeSec = 0

\* C29: in the first OLED sketch (static song list), a Prev edge on the
\* Playing screen is treated as a double-click exactly when the interval since
\* the previously recorded Prev timestamp is below 300 ms; playback-clock
\* ticks, Next, Select/resume and track changes between two Prev edges do not
\* affect the classification.
C29_OledDoubleClickByPrevTimestamp ==
  [][lastStep'[1] \in {"OledPrevSong", "OledRewind"} =>
       (lastStep'[1] = "OledPrevSong" <=> sincePrevPress < 300)]_vars

\* C30: Select on any non-Back item of the Artists or Albums menu is a no-op:
\* screen, active menu, items, selection index, scroll offset, playback state
\* and both redraw flags are unchanged.
C30_ArtistAlbumSelectNoOp ==
  [][(/\ lastStep'[1] = "MenuSelect"
      /\ currentMenu \in {"MENU_ARTISTS", "MENU_ALBUMS"}
      /\ ~backSelected) =>
       /\ currentState' = currentState
       /\ currentMenu' = currentMenu
       /\ currentMenuItems' = currentMenuItems
       /\ selectedMenuIndex' = selectedMenuIndex
       /\ menuOffset' = menuOffset
       /\ playingSongIndex' = playingSongIndex
       /\ isPlaying' = isPlaying
       /\ currentSongTimeSec' = currentSongTimeSec
       /\ songDurationSec' = songDurationSec
       /\ sessions' = sessions /\ decoderRunning' = decoderRunning
       /\ i2sPaused' = i2sPaused
       /\ needsRedraw' = needsRedraw
       /\ needsFullRedraw' = needsFullRedraw]_vars

\* Select has just been handled on the second artist of the Artists menu,
\* after the menu had been painted: nothing is to be redrawn
C30_Witness ==
  /\ lastStep = <<"MenuSelect", "MENU_ARTISTS">>
  /\ currentMenu = "MENU_ARTISTS" /\ currentState = "STATE_MENU"
  /\ Len(artists) = 2 /\ selectedMenuIndex = 1
  /\ ~needsRedraw /\ ~needsFullRedraw

\* C31: whenever needsRedraw is set, updateDisplay eventually runs (loop()
\* keeps iterating and the clock advances): a redraw requested while the frame
\* interval has not yet elapsed stays pending and is served by a later pass,
\* never dropped.
C31_RedrawEventuallyServed ==
  needsRedraw ~> (lastStep[1] = "Repaint")


\* a redraw requested on the Playing screen in the pass right after a repaint
\* is waiting for the frame interval to elapse
C31_Witness ==
  /\ lastStep[1] = "NoRepaint" /\ handler = "idle"
  /\ currentState = "STATE_PLAYING"
  /\ needsRedraw /\ ~needsFullRedraw
  /\ sinceFrame = 0


\* C32: in the mock-timer sketches, while isPlaying is false on the Playing
\* screen no pass of loop() changes currentSongTimeSec, a resume restarts the
\* one-second interval, and an increment of currentSongTimeSec needs more than
\* 1000 ms since the interval was restarted: paused time is not counted.
C32_PausedTimeNotCounted ==
  [][(sketch \in {"mock", "oled", "oledfs"}) =>
       (/\ ((currentState = "STATE_PLAYING" /\ ~isPlaying
               /\ lastStep'[1] = "LoopTop") =>
              currentSongTimeSec' = currentSongTimeSec)
        /\ ((currentState = "STATE_PLAYING" /\ ~isPlaying /\ isPlaying') =>
              sinceTick' = 0)
        /\ (currentSongTimeSec' > currentSongTimeSec =>
              (/\ lastStep'[1] = "LoopTop"
               /\ currentSongTimeSec' = currentSongTimeSec + 1
               /\ \E dt \in TimeSteps : sinceTick + dt > TICK_MS)))]_vars

\* the mock TFT sketch has resumed a track paused at one second
C32_Witness ==
  /\ sketch = "mock"
  /\ lastStep[1] = "PlayingSelect" /\ currentState = "STATE_PLAYING"
  /\ isPlaying /\ currentSongTimeSec = 1 /\ sinceTick = 0


\* C33: in the LittleFS OLED sketch with zero songs found, every
\* Select/Next/Prev edge is a no-op: currentState, selectedSongIndex,
\* playingSongIndex and isPlaying never change, STATE_PLAYING is not entered,
\* and no index or modulo operation on the empty song list is executed.
C33_EmptyListEdgesIgnored ==
  [][(sketch = "oledfs" /\ handler # "boot" /\ numSongs = 0) =>
       (/\ currentState' = currentState
        /\ selectedSongIndex' = selectedSongIndex
        /\ playingSongIndex' = playingSongIndex
        /\ isPlaying' = isPlaying
        /\ currentState' # "STATE_PLAYING"
        /\ handler' = "idle" /\ pending' = {}
        /\ fault' = "none")]_vars

\* setup() found no file and a pass of loop() has met button edges
C33_Witness ==
  /\ sketch = "oledfs" /\ numSongs = 0
  /\ currentState = "STATE_BROWSING"
  /\ lastStep = <<"LoopTop", "ignored">>


\* C34: in the LittleFS OLED sketch, whenever the song list is empty after
\* setup (no files found, root directory not openable, or filesystem mount
\* failure), setup ends in STATE_BROWSING with the "No songs found!" screen
\* drawn, rather than on the splash screen.
C34_EmptyListEndsInBrowsing ==
  (sketch = "oledfs" /\ lastStep[1] = "setup" /\ numSongs = 0) =>
    (currentState = "STATE_BROWSING" /\ lastStep[2] = "No songs found!")

\* C35: in generateMetadata of the mock-timer TFT sketch, for a file with no
\* tag data: if the filename with its .mp3 extension stripped contains " - "
\* at any position, artist is the trimmed text before the first occurrence and
\* title is the trimmed text after it; otherwise title is the stripped
\* filename, artist is "Unknown Artist" and album is "Unknown Album".  The
\* split is applied only when tag extraction yielded nothing.
C35_FilenameSplit ==
  (lastStep[1] = "generateMetadata" /\ Len(store.doc) = 1) =>
    LET name == store.music[1].name
        tag == store.music[1].tag
        e == store.doc[1]
        stem == SubSeq(name, 1, Len(name) - 1)
        dashPos == indexOf(stem, Separator)
        tagTitle == IF tag.present THEN trim(tag.title) ELSE <<>>
        tagArtist == IF tag.present THEN trim(tag.artist) ELSE <<>>
        tagAlbum == IF tag.present THEN trim(tag.album) ELSE <<>>
        noTagData == tagTitle = <<>> /\ tagArtist = <<>> /\ tagAlbum = <<>>
    IN IF noTagData
         THEN IF dashPos >= 0
                THEN /\ e.artist = trim(substring(stem, 0, dashPos))
                     /\ e.title = trim(substring(stem, dashPos + 3, Len(stem)))
                ELSE /\ e.title = stem
                     /\ e.artist = UnknownArtist
                     /\ e.album = UnknownAlbum
         ELSE /\ e.title = (IF tagTitle = <<>> THEN stem ELSE tagTitle)
              /\ e.artist = (IF tagArtist = <<>> THEN UnknownArtist
                                                 ELSE tagArtist)
              /\ e.album = (IF tagAlbum = <<>> THEN UnknownAlbum ELSE tagAlbum)


\* C36: whenever the Playing screen is active, the catalog is non-empty and
\* 0 <= playingSongIndex < songs.size(), for every sequence of
\* Select/Next/Prev edges and end-of-track advances, so that updateDisplay
\* never reads songs[playingSongIndex] out of range.
C36_PlayingIndexInRange ==
  (sketch \in {"audio", "mock"} /\ currentState = "STATE_PLAYING") =>
    /\ Len(songs) > 0
    /\ playingSongIndex >= 0 /\ playingSongIndex < Len(songs)
    /\ fault # "oob"

\* the last track of a two-track catalog has been followed by the first
C36_Witness ==
  /\ currentState = "STATE_PLAYING" /\ Len(songs) = 2
  /\ lastStep[1] \in {"PlayingNext", "EndOfTrack"}
  /\ prevPlayingSongIndex = 1 /\ playingSongIndex = 0


\* C37: in the audio-decoding sketch, whenever isPlaying is true on the
\* Playing screen the I2S sink is not paused: every i2s_out.pause() is followed
\* by an i2s_out.resume() before isPlaying becomes true again, also when a
\* paused track is followed by Next, by an end-of-track advance, or by a
\* double-click exit and a new song selection.
C37_SinkRunsWhilePlaying ==
  (sketch = "audio" /\ currentState = "STATE_PLAYING" /\ isPlaying) =>
    ~i2sPaused

\* C38: in every reachable Menu state of the TFT sketches, the selected item
\* is one of the rows updateDisplay draws: menuOffset <= selectedMenuIndex <
\* menuOffset + min(currentMenuItems.size() - menuOffset, 8).
C38_SelectionIsDrawn ==
  (sketch \in {"audio", "mock"} /\ currentState = "STATE_MENU") =>
    /\ menuOffset <= selectedMenuIndex
    /\ selectedMenuIndex < menuOffset + itemsToDraw

\* C39: in the mock-timer TFT sketch, at the end of every pass of loop() on
\* the Playing screen 0 <= currentSongTimeSec <= songDurationSec and
\* songDurationSec > 0: when a one-second tick pushes the elapsed time past
\* the duration, the player advances in the same pass to track
\* (playingSongIndex + 1) mod N with elapsed 0 and isPlaying true.
C39_ElapsedWithinDuration ==
  /\ [](currentState = "STATE_PLAYING" =>
          /\ 0 <= currentSongTimeSec
          /\ currentSongTimeSec <= songDurationSec
          /\ songDurationSec > 0)
  /\ [][(lastStep'[1] = "EndOfTrack") =>
          (/\ currentSongTimeSec = songDurationSec
           /\ playingSongIndex' = (playingSongIndex + 1) % Len(songs)
           /\ currentSongTimeSec' = 0
           /\ isPlaying' /\ currentState' = "STATE_PLAYING")]_vars

\* the last track of a two-track catalog has run out and the first one plays
C39_Witness ==
  /\ sketch = "mock" /\ lastStep[1] = "EndOfTrack"
  /\ Len(songs) = 2 /\ prevPlayingSongIndex = 1 /\ playingSongIndex = 0
  /\ currentSongTimeSec = 0 /\ isPlaying


\* C40: in the character-LCD sketch, once a Select edge has left
\* STATE_BROWSING no button edge returns to STATE_BROWSING: Select alternates
\* between STATE_PLAYING and STATE_PAUSED, Next and double-click Prev end in
\* STATE_PLAYING with playingSongIndex moved by +1 / -1 modulo 6, and a
\* single-click Prev changes neither the state nor playingSongIndex.
C40_NoReturnToBrowsing ==
  [][(sketch = "lcd" /\ currentState # "STATE_BROWSING") =>
       (/\ currentState' # "STATE_BROWSING"
        /\ (lastStep'[1] = "LoopTop" =>
              UNCHANGED <<currentState, playingSongIndex>>)
        /\ (lastStep'[1] = "LcdSelect" =>
              (/\ currentState' = (IF currentState = "STATE_PLAYING"
                                     THEN "STATE_PAUSED" ELSE "STATE_PLAYING")
               /\ playingSongIndex' = playingSongIndex))
        /\ (lastStep'[1] = "LcdNextSong" =>
              (/\ currentState' = "STATE_PLAYING"
               /\ playingSongIndex' = (playingSongIndex + 1) % 6))
        /\ (lastStep'[1] = "LcdPrevSong" =>
              (/\ sincePrevPress < 300
               /\ currentState' = "STATE_PLAYING"
               /\ playingSongIndex' = (playingSongIndex + 5) % 6))
        /\ (lastStep'[1] = "LcdRewind" =>
              (/\ sincePrevPress >= 300
               /\ UNCHANGED <<currentState, playingSongIndex>>))
        /\ lastStep'[1] \in {"LoopTop", "LcdSelect", "LcdNextSong",
                             "LcdPrevSong", "LcdRewind"})]_vars

\* a double-click Prev on the paused first track has started the last one
C40_Witness ==
  /\ sketch = "lcd" /\ lastStep = <<"LcdPrevSong", 0>>
  /\ currentState = "STATE_PLAYING" /\ playingSongIndex = 5

====
